---- MODULE Spec2Model ----
(***************************************************************************)
(* Generation task orchestrator of nemo-edit: the task store               *)
(* (generation_tasks, generation_outputs), the immediate flow               *)
(* (POST /generate-image -> runImmediateGeneration), the edit job flows     *)
(* (POST /api/v1/edit and POST /v1/edits -> runEditGeneration in a          *)
(* detached job) and the polling / result endpoints.                        *)
(*                                                                          *)
(* A step runs a handler or a detached job from one of its awaits on the    *)
(* environment (the backend, the stream, storage, a download) to the next;  *)
(* a reading endpoint is one step.  resp holds the HTTP response a step     *)
(* produced, until it has left.                                             *)
(***************************************************************************)
EXTENDS Integers, Sequences, FiniteSets, Bags, TLC

\* ---------------------------------------------------------------- bounds
\* Number of events the environment produces in a run: requests received
\* (creating a task or reading one) and items of the backend streams (a chunk
\* or an error raised in place of the next chunk).
MaxEvents == 3

\* ------------------------------------------------------- program constants
\* server.ts:471  size < 800_000
InlineLimit == 800000
\* server.ts:475  expiresIn: 300
SignedUrlExpiry == 300

\* The default of config.imageBucket (SUPABASE_IMAGE_BUCKET || "gen-images")
imageBucket == "gen-images"
\* The default of config.devToken (DEV_TOKEN || "dev-token")
devToken == "dev-token"

\* ------------------------------------------------------------ null values
\* A nullable field is a sequence of length <= 1.
Null == <<>>
Some(x) == <<x>>

\* ------------------------------------------------- process environment
\* The environment variables config.js reads (Null: not set), and whether
\* SUPABASE_URL and SUPABASE_SERVICE_ROLE_KEY are both set.
Env(devTok, jwt, prefer, supa) ==
    [DEV_TOKEN |-> devTok, PINATA_JWT |-> jwt, PINATA_PREFER_IPFS |-> prefer,
     SUPABASE |-> supa]

\* Only the database / bucket storage is configured.
DefaultEnv == Env(Null, Null, Null, TRUE)

\* process.env.X || fallback
EnvOr(v, fallback) == IF v = Null \/ v = Some("") THEN fallback ELSE v[1]

\* s.toLowerCase() of the values PINATA_PREFER_IPFS takes here.
ToLowerCase(s) ==
    CASE s = "FALSE" -> "false"
      [] s = "False" -> "false"
      [] s = "TRUE"  -> "true"
      [] OTHER       -> s

\* The config object, and supabaseAdmin (non-null or null).
ConfigOf(e) ==
    [devToken |-> EnvOr(e.DEV_TOKEN, devToken),
     pinataJwt |-> EnvOr(e.PINATA_JWT, ""),
     pinataPreferIpfs |-> ToLowerCase(EnvOr(e.PINATA_PREFER_IPFS, "true")) # "false",
     imageBucket |-> imageBucket,
     supabaseAdmin |-> e.SUPABASE]

\* ------------------------------------------------------------ the backend
\* A response chunk, as the stream loop looks at it:
\*   nparts      chunk.candidates[0].content.parts.length (0: absent or empty)
\*   inlineData  parts[0].inlineData is present
\*   bytes       byte length of the decoded parts[0].inlineData.data
\*   uri         parts[0].fileData.fileUri || .fileData.uri || .media.url || .url
\*               (<<>>: none of them set)
\*   text        chunk.text when it is a string, else Null
Chunk(n, inl, bytes, uri, txt) ==
    [nparts |-> n, inlineData |-> inl, bytes |-> bytes, uri |-> uri, text |-> txt]

Chunks ==
    { Chunk(0, FALSE, 0, <<>>, Some("z")),
      Chunk(1, FALSE, 0, <<>>, Some("a")),
      Chunk(1, FALSE, 0, <<>>, Some("b")),
      Chunk(1, TRUE, InlineLimit - 1, <<>>, Null),
      Chunk(1, TRUE, InlineLimit, <<>>, Null),
      Chunk(1, TRUE, 0, <<"https://cdn/2">>, Some("c")),
      Chunk(2, FALSE, 0, <<"https://cdn/1">>, Some("d")) }

\* An error value: err.message and String(err).
Err(msg, str) == [message |-> msg, str |-> str]

\* What the backend stream can throw: an Error with and without a message.
StreamErrors == { Err("stream broke", "Error: stream broke"), Err("", "Error") }

InvokeError == Err("backend unavailable", "Error: backend unavailable")
UploadError == Err("Supabase upload failed", "Error: Supabase upload failed")
FetchImageError == Err("Failed to fetch imageUrl (no response)",
                       "Error: Failed to fetch imageUrl (no response)")
\* The same for a response that is not OK (a 404).
FetchImageNotOk == Err("Failed to fetch imageUrl (404)",
                       "Error: Failed to fetch imageUrl (404)")
\* What updateGenerationTask throws when the store reports an error.
StoreError == Err("store rejected the update", "Error: store rejected the update")
\* What insertGenerationOutput throws when the store reports an error.
InsertError == Err("store rejected the insert", "Error: store rejected the insert")
\* What the store and the bucket functions throw when supabaseAdmin is null.
ConfigError == Err("Supabase not configured", "Error: Supabase not configured")
\* What downloadToBase64 and signedUrl throw when storage reports an error.
StorageReadError == Err("Object not found", "Error: Object not found")

\* err?.message alone, without the String(err) fallback.
ErrorTextMessageOnly(err) == err.message

\* err?.message || String(err)
ErrorText(err) == IF err.message # "" THEN err.message ELSE err.str

\* e?.message || "Unknown error"
HandlerErrorText(err) == IF err.message # "" THEN err.message ELSE "Unknown error"

\* textOut || null
TextOrNull(s) == IF s # "" THEN Some(s) ELSE Null

\* chunk.text + textOut: the chunk's text put in front.
PrependText(acc, s) == s \o acc

\* textOut += chunk.text
AppendText(acc, s) == acc \o s

\* The index left as it is after a row was inserted.
NextIndexStuck(index) == index

\* index++
NextIndex(index) == index + 1

\* The chain looking for a hosted URI before it looks for inline data.
ClassifyUriFirst(c) ==
    IF c.nparts = 0 THEN "Ignored"
    ELSE IF c.uri # <<>> THEN "ExternalRef"
    ELSE IF c.inlineData THEN "InlineImage"
    ELSE IF c.text # Null THEN "Text"
    ELSE "Ignored"

\* The classification the if / else-if chain of the stream loop makes.
Classify(c) ==
    IF c.nparts = 0 THEN "Ignored"
    ELSE IF c.inlineData THEN "InlineImage"
    ELSE IF c.uri # <<>> THEN "ExternalRef"
    ELSE IF c.text # Null THEN "Text"
    ELSE "Ignored"

\* ---------------------------------------------------------- storage gateway
\* `${task.id}/${index}.${ext}`
FilePath(t, index) == <<t, index>>

\* uploadBufferToStorage, bucket-style branch: { path: data?.path || path, publicUrl }
uploadBufferToStorage(bucket, path) ==
    [path |-> path, publicUrl |-> <<"public", bucket, path>>]

\* getPublicUrl
getPublicUrl(bucket, path) ==
    IF bucket = "external-url" THEN path ELSE <<"public", bucket, path>>

\* signedUrl
signedUrl(bucket, path, expiresIn) ==
    IF bucket = "external-url" THEN path ELSE <<"signed", bucket, path, expiresIn>>

\* ------------------------------------------------------------- task store
Statuses == {"queued", "running", "succeeded", "failed"}
Terminal == {"succeeded", "failed"}

\* The row insertGenerationTask creates: completed_at is not in the payload.
\* The inserted row waiting in a queue.
NewTaskQueued(prompt, params) ==
    [status |-> "queued", prompt |-> prompt, params |-> params,
     output_text |-> Null, error |-> Null, completed_at |-> Null]

NewTask(prompt, params) ==
    [status |-> "running", prompt |-> prompt, params |-> params,
     output_text |-> Null, error |-> Null, completed_at |-> Null]

\* update(patch).eq("id", id): the fields of the patch replace the row's.
ApplyPatch(row, patch) ==
    [f \in DOMAIN row |-> IF f \in DOMAIN patch THEN patch[f] ELSE row[f]]

updateGenerationTask(ts, id, patch) ==
    [ts EXCEPT ![id] = ApplyPatch(ts[id], patch)]

\* new Date().toISOString(), read for an update of this row: time has moved on
\* since whatever the row recorded before.
Now(row) == IF row.completed_at = Null THEN 1 ELSE row.completed_at[1] + 1

SucceededPatch(text, now) ==
    [status |-> "succeeded", output_text |-> TextOrNull(text), completed_at |-> Some(now)]

\* The failed update without completed_at.
FailedPatchNoCompletedAt(err, now) ==
    [status |-> "failed", error |-> Some(ErrorText(err))]

\* The failed update carrying a text as well.
FailedPatchWithText(err, now) ==
    [status |-> "failed", error |-> Some(ErrorText(err)),
     output_text |-> Some(ErrorText(err)), completed_at |-> Some(now)]

FailedPatch(err, now) ==
    [status |-> "failed", error |-> Some(ErrorText(err)), completed_at |-> Some(now)]

\* The row of an uploaded image attached to no task.
InlineRowUnattached(t, index, path, bytes) ==
    [task_id |-> 0, index |-> index, storage_bucket |-> imageBucket,
     storage_path |-> path, size |-> Some(bytes)]

InlineRow(t, index, path, bytes) ==
    [task_id |-> t, index |-> index, storage_bucket |-> imageBucket,
     storage_path |-> path, size |-> Some(bytes)]

\* The row of a hosted URI filed under the image bucket.
ExternalRowInBucket(t, index, url) ==
    [task_id |-> t, index |-> index, storage_bucket |-> imageBucket,
     storage_path |-> url, size |-> Null]

ExternalRow(t, index, url) ==
    [task_id |-> t, index |-> index, storage_bucket |-> "external-url",
     storage_path |-> url, size |-> Null]

\* ------------------------------------------------------------------ state
VARIABLES
    tasks,      \* generation_tasks: the row of task id t is tasks[t]
    outputs,    \* generation_outputs: a bag of rows
    run,        \* run[t]: the request context that owns task t
    events,     \* environment events so far
    resp,       \* the HTTP response being sent, or NoResp
    env,        \* the environment the process was started with
    objects     \* the paths of the objects stored in the image bucket

vars == <<tasks, outputs, run, events, resp, env, objects>>

NoResp == [op |-> "none"]

TaskIds == 1..Len(tasks)

\* The request context of a task:
\*   flow     which endpoint created it: "immediate", "edit" or "compat"
\*   pc       where its handler / detached job stands
\*   index, textOut   the locals of the stream loop
\*   emitted  every chunk the stream yielded so far, in order (a chunk whose
\*            upload was rejected included)
\*   raised   where an error was raised ("none" if none was)
\*   fetched  imgRes and maskRes of the job of POST /v1/edits: "none" (no
\*            fetch was made, or not yet), "rejected" (fetch rejected, null),
\*            "not-ok" or "ok"
NotFetched == [img |-> "none", mask |-> "none"]

NewRun(flow, pc) ==
    [flow |-> flow, pc |-> pc, index |-> 0, textOut |-> "",
     emitted |-> <<>>, raised |-> "none", fetched |-> NotFetched]

\* The context after its function returned or threw: the locals are gone.
Finished(r, site) ==
    [r EXCEPT !.pc = "done", !.index = 0, !.textOut = "", !.raised = site]

Init ==
    /\ tasks = <<>>
    /\ outputs = EmptyBag
    /\ run = <<>>
    /\ events = 0
    /\ resp = NoResp
    /\ env = DefaultEnv
    /\ objects = {}

\* res.json / res.status().json / res.redirect: the response leaves.
Deliver ==
    /\ resp # NoResp
    /\ resp' = NoResp
    /\ UNCHANGED <<tasks, outputs, run, events, env, objects>>

\* ------------------------------------------------------------------ auth
\* The Authorization header: Null when absent, else its scheme word and the
\* text after the blank.
Headers ==
    { Null,
      Some([scheme |-> "Bearer", token |-> devToken]),
      Some([scheme |-> "bearer", token |-> devToken]),
      Some([scheme |-> "Bearer", token |-> "other-token"]),
      Some([scheme |-> "Basic", token |-> devToken]) }

\* /^Bearer\s+(.+)$/i matches the header.
BearerSchemes == {"Bearer", "bearer", "BEARER"}

getUserIdFromAuth(hdr) ==
    IF hdr = Null THEN Null
    ELSE IF hdr[1].scheme \notin BearerSchemes \/ hdr[1].token = "" THEN Null
    ELSE IF hdr[1].token = ConfigOf(env).devToken THEN Some("dev-user")
    ELSE Null

\* --------------------------------------------------------- request bodies
\* A field of a JSON body: absent, a string or a number.
JsonAbsent == [type |-> "undefined"]
JsonString(s) == [type |-> "string", value |-> s]
JsonNumber(n) == [type |-> "number", value |-> n]

\* !v
Falsy(v) ==
    \/ v.type = "undefined"
    \/ v.type = "string" /\ v.value = ""
    \/ v.type = "number" /\ v.value = 0

\* s.trim() of the prompts sent here.
Trim(s) ==
    CASE s = " "   -> ""
      [] s = " p " -> "p"
      [] OTHER     -> s

\* The multipart body of POST /api/v1/edit: whether files.file[0] is there,
\* and (req.body.prompt as string) || "".
EditBody(file, prompt) == [file |-> file, prompt |-> prompt]

EditBodies ==
    { EditBody(TRUE, "p"), EditBody(FALSE, "p"), EditBody(TRUE, ""), EditBody(FALSE, "") }

\* The JSON body of POST /v1/edits.
CompatBody(prompt, imageUrl) == [prompt |-> prompt, imageUrl |-> imageUrl]

\* A body that has a maskUrl as well.
CompatBodyWithMask(prompt, imageUrl, maskUrl) ==
    [prompt |-> prompt, imageUrl |-> imageUrl, maskUrl |-> maskUrl]

\* const { maskUrl } = req.body
MaskUrlOf(body) == IF "maskUrl" \in DOMAIN body THEN body.maskUrl ELSE JsonAbsent

\* params.maskUrl as the row keeps it: null unless it is a string.
MaskUrlParam(body) ==
    IF MaskUrlOf(body).type = "string" THEN Some(MaskUrlOf(body).value) ELSE Null

\* A body with the URL of a mask and a body without one.
CompatMaskBodies ==
    { CompatBodyWithMask(JsonString("p"), JsonString("https://in/img"),
                         JsonString("https://in/mask")),
      CompatBody(JsonString("p"), JsonString("https://in/img")) }

CompatBodies ==
    { CompatBody(JsonString("p"), JsonString("https://in/img")),
      CompatBody(JsonString(" "), JsonString("https://in/img")),
      CompatBody(JsonAbsent, JsonString("https://in/img")),
      CompatBody(JsonString("p"), JsonAbsent),
      CompatBody(JsonString("p"), JsonNumber(7)) }

\* POST /api/v1/edit looking at the body before the credential.
EditAdmissionBodyFirst(hdr, body) ==
    IF ~body.file THEN [code |-> 400, error |-> "file is required"]
    ELSE IF body.prompt = "" THEN [code |-> 400, error |-> "prompt is required"]
    ELSE IF getUserIdFromAuth(hdr) = Null THEN [code |-> 401, error |-> "Unauthorized"]
    ELSE IF ~ConfigOf(env).supabaseAdmin
         THEN [code |-> 500, error |-> "Supabase not configured"]
    ELSE [code |-> 0]

\* What POST /api/v1/edit does before it creates the task: the code and error
\* it answers with, or code 0 to go on.
EditAdmission(hdr, body) ==
    IF getUserIdFromAuth(hdr) = Null THEN [code |-> 401, error |-> "Unauthorized"]
    ELSE IF ~ConfigOf(env).supabaseAdmin
         THEN [code |-> 500, error |-> "Supabase not configured"]
    ELSE IF ~body.file THEN [code |-> 400, error |-> "file is required"]
    ELSE IF body.prompt = "" THEN [code |-> 400, error |-> "prompt is required"]
    ELSE [code |-> 0]

\* POST /v1/edits taking a prompt of white space for a prompt.
CompatAdmissionNoTrim(hdr, body) ==
    IF getUserIdFromAuth(hdr) = Null THEN [code |-> 401, error |-> "Unauthorized"]
    ELSE IF ~ConfigOf(env).supabaseAdmin
         THEN [code |-> 500, error |-> "Supabase not configured"]
    ELSE IF Falsy(body.prompt) \/ body.prompt.type # "string"
         THEN [code |-> 400, error |-> "prompt is required"]
    ELSE IF Falsy(body.imageUrl) \/ body.imageUrl.type # "string"
         THEN [code |-> 400, error |-> "imageUrl is required"]
    ELSE [code |-> 0]

\* What POST /v1/edits does before it creates the task.
CompatAdmission(hdr, body) ==
    IF getUserIdFromAuth(hdr) = Null THEN [code |-> 401, error |-> "Unauthorized"]
    ELSE IF ~ConfigOf(env).supabaseAdmin
         THEN [code |-> 500, error |-> "Supabase not configured"]
    ELSE IF Falsy(body.prompt) \/ body.prompt.type # "string"
                 \/ Trim(body.prompt.value) = ""
         THEN [code |-> 400, error |-> "prompt is required"]
    ELSE IF Falsy(body.imageUrl) \/ body.imageUrl.type # "string"
         THEN [code |-> 400, error |-> "imageUrl is required"]
    ELSE [code |-> 0]

\* The response of a create request that is turned away: a 400 is shown with
\* the body it was given for.
Rejection(op, hdr, body, a) ==
    IF a.code = 400
    THEN [op |-> op, user |-> getUserIdFromAuth(hdr), code |-> a.code,
          error |-> a.error, body |-> body]
    ELSE [op |-> op, user |-> getUserIdFromAuth(hdr), code |-> a.code,
          error |-> a.error]

\* ------------------------------------------------------ prompt compilation
\* A number with one decimal digit, as a filter value.
JsonDecimal(units, tenths) == [type |-> "number", units |-> units, tenths |-> tenths]

Digit(d) ==
    CASE d = 0 -> "0" [] d = 1 -> "1" [] d = 2 -> "2" [] d = 3 -> "3" [] d = 4 -> "4"
      [] d = 5 -> "5" [] d = 6 -> "6" [] d = 7 -> "7" [] d = 8 -> "8" [] d = 9 -> "9"

\* `${x.value}`
ValueText(v) ==
    CASE v.type = "string" -> v.value
      [] v.type = "number" ->
           IF v.tenths = 0 THEN Digit(v.units)
           ELSE Digit(v.units) \o "." \o Digit(v.tenths)

\* An element of opts.filters.
Filter(slug, value) == [slug |-> slug, value |-> value]

\* The options compilePrompt reads; quality and promptText are Null when
\* absent (undefined or null).
PromptOpts(quality, filters, promptText) ==
    [quality |-> quality, filters |-> filters, promptText |-> promptText]

\* !!s of an optional string.
Truthy(s) == s # Null /\ s # Some("")

\* x.value !== undefined ? `${x.slug}=${x.value}` : x.slug
RenderFilter(x) ==
    IF x.value # JsonAbsent THEN x.slug \o "=" \o ValueText(x.value) ELSE x.slug

\* strs.join(sep)
RECURSIVE Join(_, _)
Join(strs, sep) ==
    IF strs = <<>> THEN ""
    ELSE IF Len(strs) = 1 THEN strs[1]
    ELSE strs[1] \o sep \o Join(Tail(strs), sep)

\* compilePrompt with the free-form text in front.
compilePromptTextFirst(base, opts) ==
    LET text == IF Truthy(opts.promptText) THEN <<opts.promptText[1]>> ELSE <<>>
        d1 == IF Truthy(base) THEN <<base[1]>> ELSE <<>>
        d2 == IF Truthy(opts.quality) THEN <<"Quality: " \o opts.quality[1]>> ELSE <<>>
        d3 == IF Len(opts.filters) # 0
              THEN <<"Filters: " \o
                     Join([i \in DOMAIN opts.filters |-> RenderFilter(opts.filters[i])], ", ")>>
              ELSE <<>>
    IN  Join(SelectSeq(text \o d1 \o d2 \o d3, LAMBDA l : l # ""), "\n")

\* compilePrompt(base, opts)
compilePrompt(base, opts) ==
    LET d1 == IF Truthy(base) THEN <<base[1]>> ELSE <<>>
        d2 == IF Truthy(opts.quality) THEN <<"Quality: " \o opts.quality[1]>> ELSE <<>>
        d3 == IF Len(opts.filters) # 0
              THEN <<"Filters: " \o
                     Join([i \in DOMAIN opts.filters |-> RenderFilter(opts.filters[i])], ", ")>>
              ELSE <<>>
        d4 == IF Truthy(opts.promptText) THEN <<opts.promptText[1]>> ELSE <<>>
    IN  Join(SelectSeq(d1 \o d2 \o d3 \o d4, LAMBDA l : l # ""), "\n")

\* --------------------------------------------------------- finalization
\* runImmediateGeneration finalizing its task to succeeded and answering
\* while its loop goes on taking chunks from the stream.
ImmFinalizeKeepsStreaming(t) ==
    /\ resp = NoResp
    /\ run[t].pc = "stream"
    /\ run[t].flow = "immediate"
    /\ tasks[t].status = "running"
    /\ tasks' = updateGenerationTask(tasks, t, SucceededPatch(run[t].textOut, Now(tasks[t])))
    /\ resp' = [op |-> "generate", id |-> t, code |-> 200, text |-> run[t].textOut]
    /\ UNCHANGED <<outputs, run, events, env, objects>>

\* The stream is exhausted in runImmediateGeneration: the task is finalized
\* to succeeded and the result is returned to the handler, which answers it.
ImmFinalize(t) ==
    /\ resp = NoResp
    /\ run[t].pc = "stream"
    /\ run[t].flow = "immediate"
    /\ tasks' = updateGenerationTask(tasks, t, SucceededPatch(run[t].textOut, Now(tasks[t])))
    /\ run' = [run EXCEPT ![t] = Finished(@, "none")]
    /\ resp' = [op |-> "generate", id |-> t, code |-> 200, text |-> run[t].textOut]
    /\ UNCHANGED <<outputs, events, env, objects>>

\* The stream is exhausted in runEditGeneration, which returns { outputs, text };
\* the detached job finalizes the task to succeeded.
JobFinalize(t) ==
    /\ resp = NoResp
    /\ run[t].pc = "stream"
    /\ run[t].flow \in {"edit", "compat"}
    /\ tasks' = updateGenerationTask(tasks, t, SucceededPatch(run[t].textOut, Now(tasks[t])))
    /\ run' = [run EXCEPT ![t] = Finished(@, "none")]
    /\ UNCHANGED <<outputs, events, resp, env, objects>>

\* The catch of runImmediateGeneration: finalize to failed, rethrow; the
\* handler answers 500.
ImmCatch(t, r, err, site) ==
    /\ run[t].flow = "immediate"
    /\ tasks' = updateGenerationTask(tasks, t, FailedPatch(err, Now(tasks[t])))
    /\ run' = [run EXCEPT ![t] = Finished(r, site)]
    /\ resp' = [op |-> "generate", id |-> t, code |-> 500, error |-> HandlerErrorText(err)]

\* The catch of the detached job answering the request with the error.
JobCatchAnswers(t, r, err, site) ==
    /\ run[t].flow \in {"edit", "compat"}
    /\ tasks' = updateGenerationTask(tasks, t, FailedPatch(err, Now(tasks[t])))
    /\ run' = [run EXCEPT ![t] = Finished(r, site)]
    /\ resp' = [op |-> IF run[t].flow = "edit" THEN "edit" ELSE "edits", id |-> t,
                user |-> Some(tasks[t].params.userId), code |-> 500,
                error |-> HandlerErrorText(err)]

\* The catch of the detached job (after runEditGeneration logged and rethrew):
\* finalize to failed.
JobCatch(t, r, err, site) ==
    /\ run[t].flow \in {"edit", "compat"}
    /\ tasks' = updateGenerationTask(tasks, t, FailedPatch(err, Now(tasks[t])))
    /\ run' = [run EXCEPT ![t] = Finished(r, site)]
    /\ resp' = resp

\* An error raised inside the try of the flow that owns task t, whose context
\* is r when the error is raised.
Catch(t, r, err, site) == ImmCatch(t, r, err, site) \/ JobCatch(t, r, err, site)

\* The stream is exhausted and the store rejects the succeeded update: the
\* update throws inside the try and the catch finalizes the task to failed.
FinalizeRejected(t) ==
    /\ resp = NoResp
    /\ run[t].pc = "stream"
    /\ Catch(t, run[t], StoreError, "finalize")
    /\ UNCHANGED <<outputs, events, env, objects>>

\* ------------------------------------------------------ the immediate flow
\* POST /generate-image -> runImmediateGeneration up to insertGenerationTask.
GenerateImageRequest ==
    /\ resp = NoResp
    /\ ConfigOf(env).supabaseAdmin
    /\ events < MaxEvents
    /\ events' = events + 1
    /\ tasks' = Append(tasks, NewTask(compilePrompt(Null, PromptOpts(Null, <<>>, Some("p"))),
                                      [quality |-> Null, filters |-> <<>>,
                                       variations |-> 1, styleSlug |-> Null]))
    /\ run' = Append(run, NewRun("immediate", "invoke"))
    /\ UNCHANGED <<outputs, resp, env, objects>>

\* POST /generate-image when the store rejects the insert:
\* insertGenerationTask throws, runImmediateGeneration rejects before it has
\* built the request to the backend, and the handler answers 500.
GenerateImageInsertFails ==
    /\ resp = NoResp
    /\ ConfigOf(env).supabaseAdmin
    /\ events < MaxEvents
    /\ events' = events + 1
    /\ resp' = [op |-> "generate", code |-> 500, error |-> HandlerErrorText(StoreError)]
    /\ UNCHANGED <<tasks, outputs, run, env, objects>>

\* POST /generate-image when the store is not configured: insertGenerationTask
\* throws on !supabaseAdmin before anything is inserted or sent, and the
\* handler answers 500.
GenerateImageUnconfigured ==
    /\ resp = NoResp
    /\ ~ConfigOf(env).supabaseAdmin
    /\ events < MaxEvents
    /\ events' = events + 1
    /\ resp' = [op |-> "generate", code |-> 500, error |-> HandlerErrorText(ConfigError)]
    /\ UNCHANGED <<tasks, outputs, run, env, objects>>

\* The flow marking its task when the backend call resolves.
InvokeMarksTask(t) ==
    /\ resp = NoResp
    /\ run[t].pc = "invoke"
    /\ run' = [run EXCEPT ![t].pc = "stream"]
    /\ tasks' = updateGenerationTask(tasks, t, [output_text |-> Some("streaming")])
    /\ UNCHANGED <<outputs, events, resp, env, objects>>

\* generateContentStream resolves with the stream (runImmediateGeneration and
\* runEditGeneration alike).
Invoke(t) ==
    /\ resp = NoResp
    /\ run[t].pc = "invoke"
    /\ run' = [run EXCEPT ![t].pc = "stream"]
    /\ UNCHANGED <<tasks, outputs, events, resp, env, objects>>

\* generateContentStream rejects in runImmediateGeneration: the await is
\* before the try, the error leaves the function and the handler answers 500.
ImmInvokeThrows(t) ==
    /\ resp = NoResp
    /\ run[t].pc = "invoke"
    /\ run[t].flow = "immediate"
    /\ run' = [run EXCEPT ![t] = Finished(@, "invoke")]
    /\ resp' = [op |-> "generate", id |-> t, code |-> 500,
                error |-> HandlerErrorText(InvokeError)]
    /\ UNCHANGED <<tasks, outputs, events, env, objects>>

\* generateContentStream rejects in runEditGeneration: the error reaches the
\* catch of the detached job.
EditInvokeThrows(t) ==
    /\ resp = NoResp
    /\ run[t].pc = "invoke"
    /\ JobCatch(t, run[t], InvokeError, "invoke")
    /\ UNCHANGED <<outputs, events, env, objects>>

\* ---------------------------------------------------------- the stream loop
\* The loop with one index counter for all the calls that consume a stream:
\* an insert advances the counter every streaming call reads.
StreamChunkSharedIndex(t, c) ==
    /\ resp = NoResp
    /\ run[t].pc = "stream"
    /\ events < MaxEvents
    /\ events' = events + 1
    /\ LET k == Classify(c)
           r == [run[t] EXCEPT !.emitted = Append(@, c)]
           up == uploadBufferToStorage(imageBucket, FilePath(t, r.index))
       IN  /\ run' = [u \in DOMAIN run |->
                 IF u = t
                 THEN CASE k \in {"InlineImage", "ExternalRef"} -> [r EXCEPT !.index = NextIndex(@)]
                        [] k = "Text"  -> [r EXCEPT !.textOut = AppendText(@, c.text[1])]
                        [] OTHER       -> r
                 ELSE IF k \in {"InlineImage", "ExternalRef"} /\ run[u].pc = "stream"
                      THEN [run[u] EXCEPT !.index = NextIndex(@)]
                      ELSE run[u]]
           /\ outputs' =
                 CASE k = "InlineImage" ->
                        outputs (+) SetToBag({InlineRow(t, r.index, up.path, c.bytes)})
                   [] k = "ExternalRef" ->
                        outputs (+) SetToBag({ExternalRow(t, r.index, c.uri)})
                   [] OTHER -> outputs
           /\ objects' = IF k = "InlineImage" THEN objects \cup {up.path} ELSE objects
    /\ UNCHANGED <<tasks, resp, env>>

\* One iteration of for await (const chunk of response) whose awaits resolve:
\* an inline image is uploaded and its row inserted, an external reference
\* has its row inserted, text is accumulated, anything else is skipped.
\* index++ follows the insert.
\* The loop keeping only the latest output of a task: the row of a chunk
\* takes the place of the rows the task already had.
StreamChunkReplacing(t, c) ==
    /\ resp = NoResp
    /\ run[t].pc = "stream"
    /\ events < MaxEvents
    /\ events' = events + 1
    /\ LET k == Classify(c)
           r == [run[t] EXCEPT !.emitted = Append(@, c)]
           up == uploadBufferToStorage(imageBucket, FilePath(t, r.index))
           others == SetToBag({q \in BagToSet(outputs) : q.task_id # t})
       IN  /\ run' = [run EXCEPT ![t] =
                 CASE k \in {"InlineImage", "ExternalRef"} -> [r EXCEPT !.index = NextIndex(@)]
                   [] k = "Text"  -> [r EXCEPT !.textOut = AppendText(@, c.text[1])]
                   [] OTHER       -> r]
           /\ outputs' =
                 CASE k = "InlineImage" ->
                        others (+) SetToBag({InlineRow(t, r.index, up.path, c.bytes)})
                   [] k = "ExternalRef" ->
                        others (+) SetToBag({ExternalRow(t, r.index, c.uri)})
                   [] OTHER -> outputs
           /\ objects' = IF k = "InlineImage" THEN objects \cup {up.path} ELSE objects
    /\ UNCHANGED <<tasks, resp, env>>

StreamChunk(t, c) ==
    /\ resp = NoResp
    /\ run[t].pc = "stream"
    /\ events < MaxEvents
    /\ events' = events + 1
    /\ LET k == Classify(c)
           r == [run[t] EXCEPT !.emitted = Append(@, c)]
           up == uploadBufferToStorage(imageBucket, FilePath(t, r.index))
       IN  /\ run' = [run EXCEPT ![t] =
                 CASE k \in {"InlineImage", "ExternalRef"} -> [r EXCEPT !.index = NextIndex(@)]
                   [] k = "Text"  -> [r EXCEPT !.textOut = AppendText(@, c.text[1])]
                   [] OTHER       -> r]
           /\ outputs' =
                 CASE k = "InlineImage" ->
                        outputs (+) SetToBag({InlineRow(t, r.index, up.path, c.bytes)})
                   [] k = "ExternalRef" ->
                        outputs (+) SetToBag({ExternalRow(t, r.index, c.uri)})
                   [] OTHER -> outputs
           /\ objects' = IF k = "InlineImage" THEN objects \cup {up.path} ELSE objects
    /\ UNCHANGED <<tasks, resp, env>>

\* The stream yields an image or a hosted URI and insertGenerationOutput
\* rejects (for an inline image, after its upload): no row is inserted, the
\* loop is left and the catch finalizes the task.
InsertOutputThrows(t, c) ==
    /\ resp = NoResp
    /\ run[t].pc = "stream"
    /\ events < MaxEvents
    /\ Classify(c) \in {"InlineImage", "ExternalRef"}
    /\ events' = events + 1
    /\ objects' = IF Classify(c) = "InlineImage"
                  THEN objects \cup
                       {uploadBufferToStorage(imageBucket, FilePath(t, run[t].index)).path}
                  ELSE objects
    /\ Catch(t, [run[t] EXCEPT !.emitted = Append(@, c)], InsertError, "insert")
    /\ UNCHANGED <<outputs, env>>

\* uploadBufferToStorage rejects after the row of the image was inserted.
UploadThrowsAfterInsert(t, c) ==
    /\ resp = NoResp
    /\ run[t].pc = "stream"
    /\ events < MaxEvents
    /\ Classify(c) = "InlineImage"
    /\ events' = events + 1
    /\ outputs' = outputs (+) SetToBag({InlineRow(t, run[t].index,
                                                   FilePath(t, run[t].index), c.bytes)})
    /\ Catch(t, [run[t] EXCEPT !.emitted = Append(@, c)], UploadError, "upload")
    /\ UNCHANGED <<env, objects>>

\* The stream yields an inline image and uploadBufferToStorage rejects: no
\* row is inserted, the loop is left and the catch finalizes the task.
UploadThrows(t, c) ==
    /\ resp = NoResp
    /\ run[t].pc = "stream"
    /\ events < MaxEvents
    /\ Classify(c) = "InlineImage"
    /\ events' = events + 1
    /\ Catch(t, [run[t] EXCEPT !.emitted = Append(@, c)], UploadError, "upload")
    /\ UNCHANGED <<outputs, env, objects>>

\* StreamThrows for a job whose catch can still run after the succeeded
\* update was applied.
StreamThrowsAfterFinalize(t, e) ==
    /\ resp = NoResp
    /\ run[t].pc \in {"stream", "done"}
    /\ run[t].raised = "none"
    /\ events < MaxEvents
    /\ events' = events + 1
    /\ Catch(t, run[t], e, "stream")
    /\ UNCHANGED <<outputs, env, objects>>

\* The stream raises while the loop awaits its next chunk: the catch
\* finalizes the task.
StreamThrows(t, e) ==
    /\ resp = NoResp
    /\ run[t].pc = "stream"
    /\ events < MaxEvents
    /\ events' = events + 1
    /\ Catch(t, run[t], e, "stream")
    /\ UNCHANGED <<outputs, env, objects>>

\* ----------------------------------------------------- POST /api/v1/edit
\* A request (without mask) up to insertGenerationTask: it is answered 401,
\* 500 or 400 before anything else is done, or its task is created.
EditRequest(hdr, body) ==
    /\ resp = NoResp
    /\ events < MaxEvents
    /\ events' = events + 1
    /\ IF EditAdmission(hdr, body).code # 0
       THEN /\ resp' = Rejection("edit", hdr, body, EditAdmission(hdr, body))
            /\ UNCHANGED <<tasks, run>>
       ELSE /\ tasks' = Append(tasks, NewTask(body.prompt,
                               [userId |-> getUserIdFromAuth(hdr)[1],
                                clientRequestId |-> Null, provider |-> "gemini"]))
            /\ run' = Append(run, NewRun("edit", "uploads"))
            /\ resp' = resp
    /\ UNCHANGED <<outputs, env, objects>>

\* One of the record-keeping uploads rejects: the handler's catch answers 500.
EditUploadsThrow(t) ==
    /\ resp = NoResp
    /\ run[t].pc = "uploads"
    /\ run' = [run EXCEPT ![t] = Finished(@, "record-upload")]
    /\ resp' = [op |-> "edit", id |-> t, user |-> Some(tasks[t].params.userId),
                code |-> 500, error |-> HandlerErrorText(UploadError)]
    /\ UNCHANGED <<tasks, outputs, events, env, objects>>

\* The enrichment writing the upload paths as the whole of params.
EnrichPatchReplacing(row, t) ==
    [params |-> [originalPath |-> <<"uploads", "dev-user", t>>, maskPath |-> Null]]

\* { ...(task.params || {}), originalPath, maskPath }
EnrichPatch(row, t) ==
    [params |-> [originalPath |-> <<"uploads", "dev-user", t>>, maskPath |-> Null]
                @@ row.params]

\* The handler starting its detached job and answering without waiting for
\* the params enrichment update.
EditEnrichJobFirst(t) ==
    /\ resp = NoResp
    /\ run[t].pc = "uploads"
    /\ run' = [run EXCEPT ![t].pc = "invoke"]
    /\ objects' = objects \cup {EnrichPatch(tasks[t], t).params.originalPath}
    /\ resp' = [op |-> "edit", id |-> t, user |-> Some(tasks[t].params.userId),
                code |-> 200, status |-> "accepted"]
    /\ UNCHANGED <<tasks, outputs, events, env>>

\* The record-keeping uploads and the params enrichment update resolve; the
\* detached job is started (it runs up to its await of generateContentStream)
\* and the handler answers "accepted".
EditEnrich(t) ==
    /\ resp = NoResp
    /\ run[t].pc = "uploads"
    /\ tasks' = updateGenerationTask(tasks, t, EnrichPatch(tasks[t], t))
    /\ run' = [run EXCEPT ![t].pc = "invoke"]
    /\ objects' = objects \cup {EnrichPatch(tasks[t], t).params.originalPath}
    /\ resp' = [op |-> "edit", id |-> t, user |-> Some(tasks[t].params.userId),
                code |-> 200, status |-> "accepted"]
    /\ UNCHANGED <<outputs, events, env>>

\* --------------------------------------------------------- POST /v1/edits
\* A request: it is answered 401, 500 or 400 before anything else is done, or
\* the task is inserted, the detached job starts its downloads and the handler
\* answers.
CompatRequest(hdr, body) ==
    /\ resp = NoResp
    /\ events < MaxEvents
    /\ events' = events + 1
    /\ IF CompatAdmission(hdr, body).code # 0
       THEN /\ resp' = Rejection("edits", hdr, body, CompatAdmission(hdr, body))
            /\ UNCHANGED <<tasks, run>>
       ELSE /\ tasks' = Append(tasks, NewTask(body.prompt.value,
                               [userId |-> getUserIdFromAuth(hdr)[1],
                                provider |-> "gemini", compat |-> "v1/edits",
                                imageUrl |-> body.imageUrl.value,
                                maskUrl |-> MaskUrlParam(body)]))
            /\ run' = Append(run, NewRun("compat", "download"))
            /\ resp' = [op |-> "edits", id |-> Len(tasks) + 1,
                        user |-> getUserIdFromAuth(hdr), code |-> 200,
                        status |-> "running", resultUrl |-> Null]
    /\ UNCHANGED <<outputs, env, objects>>

\* What a fetch that was made can come to: fetch rejects (.catch gives null),
\* the response is not OK, the response is OK.
FetchOutcomes == {"rejected", "not-ok", "ok"}

\* maskUrl ? fetch(maskUrl).catch(() => null) : Promise.resolve(null)
MaskFetches(t) ==
    IF "maskUrl" \notin DOMAIN tasks[t].params THEN {"none"}
    ELSE IF tasks[t].params.maskUrl = Null \/ tasks[t].params.maskUrl = Some("")
    THEN {"none"}
    ELSE FetchOutcomes

\* new Error(`Failed to fetch imageUrl (${imgRes?.status || "no response"})`)
FetchImageErrorOf(imgRes) ==
    IF imgRes = "not-ok" THEN FetchImageNotOk ELSE FetchImageError

\* The job treating the mask as it treats the image: a mask that was asked
\* for and did not arrive throws into the catch.
CompatDownloadMaskRequired(t, maskRes) ==
    /\ resp = NoResp
    /\ run[t].pc = "download"
    /\ maskRes \in MaskFetches(t)
    /\ IF maskRes \in {"rejected", "not-ok"}
       THEN JobCatch(t, [run[t] EXCEPT !.fetched = [img |-> "ok", mask |-> maskRes]],
                     FetchImageError, "download")
       ELSE /\ run' = [run EXCEPT ![t].pc = "invoke",
                                   ![t].fetched = [img |-> "ok", mask |-> maskRes]]
            /\ UNCHANGED <<tasks, resp>>
    /\ UNCHANGED <<outputs, events, env, objects>>

\* The image download succeeds, whatever became of the mask download, and
\* runEditGeneration is entered: maskBuf is the mask's bytes if its response
\* is OK, else null.
CompatDownload(t, maskRes) ==
    /\ resp = NoResp
    /\ run[t].pc = "download"
    /\ maskRes \in MaskFetches(t)
    /\ run' = [run EXCEPT ![t].pc = "invoke",
                          ![t].fetched = [img |-> "ok", mask |-> maskRes]]
    /\ UNCHANGED <<tasks, outputs, events, resp, env, objects>>

\* The image download fails or is not OK: the job throws into its catch.
CompatDownloadFails(t, imgRes, maskRes) ==
    /\ resp = NoResp
    /\ run[t].pc = "download"
    /\ imgRes \in {"rejected", "not-ok"}
    /\ maskRes \in MaskFetches(t)
    /\ JobCatch(t, [run[t] EXCEPT !.fetched = [img |-> imgRes, mask |-> maskRes]],
                FetchImageErrorOf(imgRes), "download")
    /\ UNCHANGED <<outputs, events, env, objects>>

\* ------------------------------------------------------- reading endpoints
\* from("generation_tasks").select("*").eq("id", id).maybeSingle()
SelectTask(id) == IF id \in TaskIds THEN Some(tasks[id]) ELSE Null

\* task.params?.userId || null
ParamsUser(row) ==
    IF "userId" \in DOMAIN row.params /\ row.params.userId # ""
    THEN Some(row.params.userId)
    ELSE Null

\* from("generation_outputs").eq("task_id", id).order("index").limit(1)
FirstOutput(id) ==
    LET rows == {r \in BagToSet(outputs) : r.task_id = id}
    IN  IF rows = {} THEN Null
        ELSE Some(CHOOSE r \in rows : \A q \in rows : r.index <= q.index)

\* The status words of GET /api/v1/edit/:id.
EditStatusWord(status) ==
    CASE status = "running"   -> "processing"
      [] status = "succeeded" -> "done"
      [] status = "failed"    -> "error"
      [] OTHER                -> status

\* The status words of GET /v1/jobs/:id: only succeeded is renamed.
JobStatusWord(status) ==
    CASE status = "succeeded" -> "done"
      [] OTHER                -> status

\* The public URL of the first output, whatever the status of the task.
ResultUrlAnyStatus(id) ==
    IF FirstOutput(id) # Null
    THEN Some(getPublicUrl(FirstOutput(id)[1].storage_bucket,
                           FirstOutput(id)[1].storage_path))
    ELSE Null

\* result_url / resultUrl: the public URL of the first output of a succeeded
\* task, else null.
ResultUrl(id) ==
    IF tasks[id].status = "succeeded" /\ FirstOutput(id) # Null
    THEN Some(getPublicUrl(FirstOutput(id)[1].storage_bucket,
                           FirstOutput(id)[1].storage_path))
    ELSE Null

\* The reading handlers letting any authenticated caller at any task.
AdmissionNoOwner(id, hdr) ==
    LET user == getUserIdFromAuth(hdr)
    IN  IF user = Null THEN 401
        ELSE IF ~ConfigOf(env).supabaseAdmin THEN 500
        ELSE IF SelectTask(id) = Null THEN 404
        ELSE 0

\* What the reading handlers do before they build their answer: the outcome
\* is 401, 500, 404 or 0 (go on).
Admission(id, hdr) ==
    LET user == getUserIdFromAuth(hdr)
    IN  IF user = Null THEN 401
        ELSE IF ~ConfigOf(env).supabaseAdmin THEN 500
        ELSE IF SelectTask(id) = Null THEN 404
        ELSE IF ParamsUser(tasks[id]) # Null /\ ParamsUser(tasks[id]) # user THEN 404
        ELSE 0

Refusal(op, id, hdr) ==
    [op |-> op, id |-> id, user |-> getUserIdFromAuth(hdr), code |-> Admission(id, hdr),
     error |-> CASE Admission(id, hdr) = 401 -> "Unauthorized"
                 [] Admission(id, hdr) = 500 -> "Supabase not configured"
                 [] OTHER -> "Not found"]

\* GET /api/v1/edit/:id
EditStatusResponse(id, hdr) ==
    IF Admission(id, hdr) # 0 THEN Refusal("status", id, hdr)
    ELSE [op |-> "status", id |-> id, user |-> getUserIdFromAuth(hdr), code |-> 200,
          status |-> EditStatusWord(tasks[id].status), result_url |-> ResultUrl(id)]

\* GET /v1/jobs/:id giving the URL of the first output of a failed task too.
JobStatusResponsePartial(id, hdr) ==
    IF Admission(id, hdr) # 0 THEN Refusal("job", id, hdr)
    ELSE [op |-> "job", id |-> id, user |-> getUserIdFromAuth(hdr), code |-> 200,
          status |-> JobStatusWord(tasks[id].status),
          result_url |-> IF tasks[id].status \in Terminal THEN ResultUrlAnyStatus(id)
                         ELSE Null]

\* GET /v1/jobs/:id
JobStatusResponse(id, hdr) ==
    IF Admission(id, hdr) # 0 THEN Refusal("job", id, hdr)
    ELSE [op |-> "job", id |-> id, user |-> getUserIdFromAuth(hdr), code |-> 200,
          status |-> JobStatusWord(tasks[id].status), result_url |-> ResultUrl(id)]

\* Number(first.size || 0)
SizeNumber(size) == IF size = Null THEN 0 ELSE size[1]

\* The threshold taken as the largest inline size.
InlineDeliveryUpTo(size) == size > 0 /\ size <= InlineLimit

\* size > 0 && size < 800_000
InlineDelivery(size) == size > 0 /\ size < InlineLimit

\* The result is withheld only while the task is not terminal.
NotAvailableUntilTerminal(status) == status \notin Terminal

\* task.status !== "succeeded"
NotAvailable(status) == status # "succeeded"

\* downloadToBase64: the base64 text of what is stored at (bucket, path).
downloadToBase64(bucket, path) == <<"base64", bucket, path>>

\* GET /api/v1/edit/:id/result sending a succeeded task without output to a
\* signed URL of nothing instead of answering not found.
EditResultResponseRedirectsEmpty(id, hdr) ==
    LET me == [op |-> "result", id |-> id, user |-> getUserIdFromAuth(hdr)]
        first == FirstOutput(id)[1]
    IN  IF Admission(id, hdr) # 0 THEN Refusal("result", id, hdr)
        ELSE IF NotAvailable(tasks[id].status)
             THEN me @@ [code |-> 400, error |-> "Result not available"]
        ELSE IF FirstOutput(id) = Null
             THEN me @@ [code |-> 302,
                         location |-> signedUrl(imageBucket, <<>>, SignedUrlExpiry)]
        ELSE IF InlineDelivery(SizeNumber(first.size))
             THEN me @@ [code |-> 200,
                         result_base64 |-> downloadToBase64(first.storage_bucket,
                                                            first.storage_path)]
             ELSE me @@ [code |-> 302,
                         location |-> signedUrl(first.storage_bucket,
                                                first.storage_path, SignedUrlExpiry)]

\* GET /api/v1/edit/:id/result
EditResultResponse(id, hdr) ==
    LET me == [op |-> "result", id |-> id, user |-> getUserIdFromAuth(hdr)]
        first == FirstOutput(id)[1]
    IN  IF Admission(id, hdr) # 0 THEN Refusal("result", id, hdr)
        ELSE IF NotAvailable(tasks[id].status)
             THEN me @@ [code |-> 400, error |-> "Result not available"]
        ELSE IF FirstOutput(id) = Null THEN me @@ [code |-> 404, error |-> "Not found"]
        ELSE IF InlineDelivery(SizeNumber(first.size))
             THEN me @@ [code |-> 200,
                         result_base64 |-> downloadToBase64(first.storage_bucket,
                                                            first.storage_path)]
             ELSE me @@ [code |-> 302,
                         location |-> signedUrl(first.storage_bucket,
                                                first.storage_path, SignedUrlExpiry)]

\* The ids a request can name: every task and one id no task has.
RequestIds == 1..(Len(tasks) + 1)

\* GET /api/v1/edit/:id giving up on a task it finds still running.
EditStatusTimesOut(id, hdr) ==
    /\ resp = NoResp
    /\ events < MaxEvents
    /\ events' = events + 1
    /\ resp' = EditStatusResponse(id, hdr)
    /\ tasks' = IF Admission(id, hdr) = 0 /\ tasks[id].status = "running"
                THEN updateGenerationTask(tasks, id,
                         FailedPatch(Err("timed out", "Error: timed out"), Now(tasks[id])))
                ELSE tasks
    /\ UNCHANGED <<outputs, run, env, objects>>

EditStatus(id, hdr) ==
    /\ resp = NoResp
    /\ events < MaxEvents
    /\ events' = events + 1
    /\ resp' = EditStatusResponse(id, hdr)
    /\ UNCHANGED <<tasks, outputs, run, env, objects>>

JobStatus(id, hdr) ==
    /\ resp = NoResp
    /\ events < MaxEvents
    /\ events' = events + 1
    /\ resp' = JobStatusResponse(id, hdr)
    /\ UNCHANGED <<tasks, outputs, run, env, objects>>

EditResult(id, hdr) ==
    /\ resp = NoResp
    /\ events < MaxEvents
    /\ events' = events + 1
    /\ resp' = EditResultResponse(id, hdr)
    /\ UNCHANGED <<tasks, outputs, run, env, objects>>

\* downloadToBase64 or signedUrl throws (the storage service reports an
\* error): the handler's catch answers 500.
EditResultStorageFails(id, hdr) ==
    /\ resp = NoResp
    /\ events < MaxEvents
    /\ EditResultResponse(id, hdr).code \in {200, 302}
    /\ events' = events + 1
    /\ resp' = [op |-> "result", id |-> id, user |-> getUserIdFromAuth(hdr),
                code |-> 500, error |-> HandlerErrorText(StorageReadError)]
    /\ UNCHANGED <<tasks, outputs, run, env, objects>>

\* .order("index", { ascending: true }) over rows
RECURSIVE OrderByIndex(_)
OrderByIndex(rows) ==
    IF rows = {} THEN <<>>
    ELSE LET r == CHOOSE r \in rows : \A q \in rows : r.index <= q.index
         IN  <<r>> \o OrderByIndex(rows \ {r})

\* GET /tasks/:id: the task row and its output rows in index order, each with
\* its public URL; no Authorization header is looked at.
TaskDetailResponse(id) ==
    IF ~ConfigOf(env).supabaseAdmin
    THEN [op |-> "task", id |-> id, code |-> 500, error |-> "Supabase not configured"]
    ELSE IF SelectTask(id) = Null
    THEN [op |-> "task", id |-> id, code |-> 404, error |-> "Not found"]
    ELSE LET rows == OrderByIndex({r \in BagToSet(outputs) : r.task_id = id})
         IN  [op |-> "task", id |-> id, code |-> 200, task |-> tasks[id],
              outputs |-> [i \in DOMAIN rows |->
                              rows[i] @@ [publicUrl |-> getPublicUrl(rows[i].storage_bucket,
                                                                    rows[i].storage_path)]]]

\* GET /tasks/:id answering as if it marked a task it found running as read.
TaskDetailTouches(id) ==
    /\ resp = NoResp
    /\ events < MaxEvents
    /\ events' = events + 1
    /\ resp' = TaskDetailResponse(id)
    /\ tasks' = IF id \in TaskIds /\ tasks[id].status = "running"
                THEN [tasks EXCEPT ![id].status = "failed"]
                ELSE tasks
    /\ UNCHANGED <<outputs, run, env, objects>>

TaskDetail(id) ==
    /\ resp = NoResp
    /\ events < MaxEvents
    /\ events' = events + 1
    /\ resp' = TaskDetailResponse(id)
    /\ UNCHANGED <<tasks, outputs, run, env, objects>>

\* ------------------------------------------------------------ specification
Next ==
    \/ Deliver
    \/ GenerateImageRequest
    \/ GenerateImageInsertFails
    \/ \E hdr \in Headers : \E body \in EditBodies : EditRequest(hdr, body)
    \/ \E hdr \in Headers : \E body \in CompatBodies : CompatRequest(hdr, body)
    \/ \E t \in TaskIds : Invoke(t)
    \/ \E t \in TaskIds : ImmInvokeThrows(t)
    \/ \E t \in TaskIds : EditInvokeThrows(t)
    \/ \E t \in TaskIds : \E c \in Chunks : StreamChunk(t, c)
    \/ \E t \in TaskIds : \E c \in Chunks : InsertOutputThrows(t, c)
    \/ \E t \in TaskIds : \E c \in Chunks : UploadThrows(t, c)
    \/ \E t \in TaskIds : \E e \in StreamErrors : StreamThrows(t, e)
    \/ \E t \in TaskIds : ImmFinalize(t)
    \/ \E t \in TaskIds : JobFinalize(t)
    \/ \E t \in TaskIds : FinalizeRejected(t)
    \/ \E t \in TaskIds : EditUploadsThrow(t)
    \/ \E t \in TaskIds : EditEnrich(t)
    \/ \E t \in TaskIds : \E m \in MaskFetches(t) : CompatDownload(t, m)
    \/ \E t \in TaskIds : \E m \in MaskFetches(t) : CompatDownloadFails(t, "rejected", m)
    \/ \E id \in RequestIds : \E hdr \in Headers : EditStatus(id, hdr)
    \/ \E id \in RequestIds : \E hdr \in Headers : JobStatus(id, hdr)
    \/ \E id \in RequestIds : \E hdr \in Headers : EditResult(id, hdr)
    \/ \E id \in RequestIds : \E hdr \in Headers : EditResultStorageFails(id, hdr)
    \/ \E id \in RequestIds : TaskDetail(id)

Spec == Init /\ [][Next]_vars

\* ------------------------------------------- the modules under a configuration
\* The environments the process can be started in.
Envs ==
    { Env(d, j, p, u) : d \in {Null, Some(""), Some("s3cret")},
                        j \in {Null, Some(""), Some("jwt")},
                        p \in {Null, Some("false"), Some("False")},
                        u \in BOOLEAN }

\* Authorization headers, those of Headers among them.
AuthHeaders ==
    Headers \cup
    { Some([scheme |-> "Bearer", token |-> "s3cret"]),
      Some([scheme |-> "BEARER", token |-> "s3cret"]),
      Some([scheme |-> "Basic", token |-> "s3cret"]),
      Some([scheme |-> "Bearer", token |-> ""]) }

\* isPinataEnabled()
isPinataEnabled(cfg) == cfg.pinataJwt # ""

\* The use of a backend, or a plain fetch of a URL.
Call(service, what) == [service |-> service, what |-> what]

\* The outcome of a storage function: the backends it used, in order, and the
\* value it returned or the message of the error it threw.
Returned(calls, value) == [calls |-> calls, value |-> Some(value), error |-> Null]
Thrown(calls, message) == [calls |-> calls, value |-> Null, error |-> Some(message)]

\* path.split("/").pop() || "file"
Filename(path) == IF path = <<>> THEN "file" ELSE path[Len(path)]

\* const [cid, ...rest] = path.split("/"); rest.join("/") || "file"
GatewayUrl(path) ==
    <<"gateway", Head(path),
      IF Tail(path) = <<>> THEN "file" ELSE Tail(path)>>

\* What the remote service answers to an upload, a signing request, a
\* download or a fetch.
Answers == {"ok", "error", "no-cid"}

\* uploadBufferToStorage that turns to the bucket backend when the pinning
\* request fails.
UploadWithFallback(cfg, bucket, path, answer) ==
    IF isPinataEnabled(cfg) /\ answer = "ok"
    THEN Returned(<<Call("pinata", "upload")>>,
                  [path |-> <<"cid", Filename(path)>>,
                   publicUrl |-> <<"gateway", "cid", Filename(path)>>])
    ELSE IF ~cfg.supabaseAdmin
         THEN Thrown(IF isPinataEnabled(cfg) THEN <<Call("pinata", "upload")>> ELSE <<>>,
                     "Supabase not configured")
    ELSE Returned((IF isPinataEnabled(cfg) THEN <<Call("pinata", "upload")>> ELSE <<>>)
                      \o <<Call("supabase", "upload")>>,
                  uploadBufferToStorage(bucket, path))

\* uploadBufferToStorage that lets the buffer go when no backend is
\* configured: it returns the path it was given and has stored nothing.
UploadDropping(cfg, bucket, path, answer) ==
    IF ~isPinataEnabled(cfg) /\ ~cfg.supabaseAdmin
    THEN Returned(<<>>, [path |-> path, publicUrl |-> <<>>])
    ELSE IF isPinataEnabled(cfg)
    THEN LET api == IF cfg.pinataPreferIpfs THEN "pinFileToIPFS" ELSE "upload"
         IN  CASE answer = "ok" ->
                    Returned(<<Call("pinata", api)>>,
                             [path |-> <<"cid", Filename(path)>>,
                              publicUrl |-> <<"gateway", "cid", Filename(path)>>])
               [] answer = "error" ->
                    Thrown(<<Call("pinata", api)>>, "Pinata " \o api \o " failed")
               [] OTHER ->
                    Thrown(<<Call("pinata", api)>>, "Pinata " \o api \o " did not return a CID")
    ELSE IF answer = "ok"
         THEN Returned(<<Call("supabase", "upload")>>, uploadBufferToStorage(bucket, path))
         ELSE Thrown(<<Call("supabase", "upload")>>, "storage error")

\* uploadBufferToStorage under configuration cfg, when the service it turns
\* to gives the answer.
Upload(cfg, bucket, path, answer) ==
    IF isPinataEnabled(cfg)
    THEN LET api == IF cfg.pinataPreferIpfs THEN "pinFileToIPFS" ELSE "upload"
         IN  CASE answer = "ok" ->
                    Returned(<<Call("pinata", api)>>,
                             [path |-> <<"cid", Filename(path)>>,
                              publicUrl |-> <<"gateway", "cid", Filename(path)>>])
               [] answer = "error" ->
                    Thrown(<<Call("pinata", api)>>, "Pinata " \o api \o " failed")
               [] OTHER ->
                    Thrown(<<Call("pinata", api)>>, "Pinata " \o api \o " did not return a CID")
    ELSE IF ~cfg.supabaseAdmin THEN Thrown(<<>>, "Supabase not configured")
    ELSE IF answer = "ok"
         THEN Returned(<<Call("supabase", "upload")>>, uploadBufferToStorage(bucket, path))
         ELSE Thrown(<<Call("supabase", "upload")>>, "storage error")

\* getPublicUrl under configuration cfg.
PublicUrl(cfg, bucket, path) ==
    IF bucket = "external-url" THEN Returned(<<>>, path)
    ELSE IF isPinataEnabled(cfg)
         THEN Returned(<<Call("pinata", "gateway")>>, GatewayUrl(path))
    ELSE IF ~cfg.supabaseAdmin THEN Thrown(<<>>, "Supabase not configured")
    ELSE Returned(<<Call("supabase", "getPublicUrl")>>, getPublicUrl(bucket, path))

\* signedUrl under configuration cfg.
SignedUrl(cfg, bucket, path, expiresIn, answer) ==
    IF bucket = "external-url" THEN Returned(<<>>, path)
    ELSE IF isPinataEnabled(cfg)
         THEN Returned(<<Call("pinata", "gateway")>>, GatewayUrl(path))
    ELSE IF ~cfg.supabaseAdmin THEN Thrown(<<>>, "Supabase not configured")
    ELSE IF answer = "ok"
         THEN Returned(<<Call("supabase", "createSignedUrl")>>,
                       signedUrl(bucket, path, expiresIn))
         ELSE Thrown(<<Call("supabase", "createSignedUrl")>>, "storage error")

\* downloadToBase64 asking the configured backend before it looks at the
\* bucket.
DownloadBackendFirst(cfg, bucket, path, answer) ==
    IF isPinataEnabled(cfg)
    THEN IF answer = "ok"
         THEN Returned(<<Call("pinata", "gateway"), Call("fetch", GatewayUrl(path))>>,
                       <<"base64", GatewayUrl(path)>>)
         ELSE Thrown(<<Call("pinata", "gateway"), Call("fetch", GatewayUrl(path))>>,
                     "Fetch failed")
    ELSE IF ~cfg.supabaseAdmin THEN Thrown(<<>>, "Supabase not configured")
    ELSE IF bucket = "external-url"
         THEN IF answer = "ok"
              THEN Returned(<<Call("fetch", path)>>, downloadToBase64(bucket, path))
              ELSE Thrown(<<Call("fetch", path)>>, "Fetch failed")
    ELSE IF answer = "ok"
         THEN Returned(<<Call("supabase", "download")>>, downloadToBase64(bucket, path))
         ELSE Thrown(<<Call("supabase", "download")>>, "storage error")

\* downloadToBase64 under configuration cfg.
Download(cfg, bucket, path, answer) ==
    IF bucket = "external-url"
    THEN IF answer = "ok"
         THEN Returned(<<Call("fetch", path)>>, downloadToBase64(bucket, path))
         ELSE Thrown(<<Call("fetch", path)>>, "Fetch failed")
    ELSE IF isPinataEnabled(cfg)
         THEN IF answer = "ok"
              THEN Returned(<<Call("pinata", "gateway"), Call("fetch", GatewayUrl(path))>>,
                            <<"base64", GatewayUrl(path)>>)
              ELSE Thrown(<<Call("pinata", "gateway"), Call("fetch", GatewayUrl(path))>>,
                          "Fetch failed")
    ELSE IF ~cfg.supabaseAdmin THEN Thrown(<<>>, "Supabase not configured")
    ELSE IF answer = "ok"
         THEN Returned(<<Call("supabase", "download")>>, downloadToBase64(bucket, path))
         ELSE Thrown(<<Call("supabase", "download")>>, "storage error")

\* The stored outputs the functions are asked about: what the bucket backend
\* and the pinning backend return as path, and a hosted URI.
StoredAt ==
    << [bucket |-> imageBucket, path |-> FilePath(1, 0)],
       [bucket |-> imageBucket, path |-> <<"cid", 0>>],
       [bucket |-> "external-url", path |-> <<"https://cdn/1">>],
       [bucket |-> "external-url", path |-> <<"https://cdn/2">>] >>

InitModules ==
    /\ tasks = <<>>
    /\ outputs = EmptyBag
    /\ run = <<>>
    /\ events = 0
    /\ resp = NoResp
    /\ env \in Envs
    /\ objects = {}

\* getUserIdFromAuth is applied to a request with the header.
Authenticate(hdr) ==
    /\ resp = NoResp
    /\ resp' = [op |-> "auth", header |-> hdr, user |-> getUserIdFromAuth(hdr)]
    /\ UNCHANGED <<tasks, outputs, run, events, env, objects>>

\* uploadBufferToStorage is applied to an image of the first output of a
\* task.
StoreUpload(answer) ==
    /\ resp = NoResp
    /\ resp' = [op |-> "upload", answer |-> answer]
                @@ Upload(ConfigOf(env), imageBucket, FilePath(1, 0), answer)
    /\ UNCHANGED <<tasks, outputs, run, events, env, objects>>

\* getPublicUrl and signedUrl are applied to a stored output.
StoreResolve(at, answer) ==
    /\ resp = NoResp
    /\ answer \in {"ok", "error"}
    /\ resp' = [op |-> "resolve", at |-> at, answer |-> answer,
                public |-> PublicUrl(ConfigOf(env), at.bucket, at.path),
                signed |-> SignedUrl(ConfigOf(env), at.bucket, at.path,
                                     SignedUrlExpiry, answer)]
    /\ UNCHANGED <<tasks, outputs, run, events, env, objects>>

\* downloadToBase64 is applied to a stored output.
StoreDownload(at, answer) ==
    /\ resp = NoResp
    /\ answer \in {"ok", "error"}
    /\ resp' = [op |-> "download", at |-> at, answer |-> answer]
                @@ Download(ConfigOf(env), at.bucket, at.path, answer)
    /\ UNCHANGED <<tasks, outputs, run, events, env, objects>>

NextModules ==
    \/ Deliver
    \/ \E hdr \in AuthHeaders : Authenticate(hdr)
    \/ \E answer \in Answers : StoreUpload(answer)
    \/ \E i \in DOMAIN StoredAt : \E answer \in Answers :
          StoreResolve(StoredAt[i], answer)
    \/ \E i \in DOMAIN StoredAt : \E answer \in Answers :
          StoreDownload(StoredAt[i], answer)

SpecModules == InitModules /\ [][NextModules]_vars

\* --------------------------------------------- reading a store that has rows
\* The user ids a stored task can record: none, the empty string, the user of
\* the dev token, and a user this process does not authenticate.
StoredUsers == {Null, Some(""), Some("dev-user"), Some("other-user")}

\* A task row found in the store, as one of the create handlers of some
\* deployment left it.
StoredTask(user, status) ==
    [status |-> status, prompt |-> "p",
     params |-> IF user = Null THEN [provider |-> "gemini"]
                ELSE [userId |-> user[1], provider |-> "gemini"],
     output_text |-> Null,
     error |-> IF status = "failed" THEN Some("stream broke") ELSE Null,
     completed_at |-> IF status \in Terminal THEN Some(1) ELSE Null]

\* The output rows found for task 1: none, a small image, a hosted URI.
StoredOutputs ==
    { EmptyBag,
      SetToBag({InlineRow(1, 0, FilePath(1, 0), InlineLimit - 1)}),
      SetToBag({ExternalRow(1, 0, <<"https://cdn/1">>)}) }

InitStored ==
    /\ \E user \in StoredUsers : \E status \in {"running", "succeeded", "failed"} :
          tasks = <<StoredTask(user, status)>>
    /\ outputs \in StoredOutputs
    /\ run = <<Finished(NewRun("edit", "done"), "none")>>
    /\ events = 0
    /\ resp = NoResp
    /\ env = DefaultEnv
    /\ objects = {}

\* The polls and the result fetches of the stored task and of an id no task
\* has.
NextStored ==
    \/ Deliver
    \/ \E id \in RequestIds : \E hdr \in Headers : EditStatus(id, hdr)
    \/ \E id \in RequestIds : \E hdr \in Headers : JobStatus(id, hdr)
    \/ \E id \in RequestIds : \E hdr \in Headers : EditResult(id, hdr)
    \/ \E id \in RequestIds : \E hdr \in Headers : EditResultStorageFails(id, hdr)

SpecStored == InitStored /\ [][NextStored]_vars

\* ------------------------------------------- no storage backend configured
\* The environments with neither the database / bucket storage nor a pinning
\* credential.
UnconfiguredEnvs ==
    {e \in Envs : ~ConfigOf(e).supabaseAdmin /\ ~isPinataEnabled(ConfigOf(e))}

InitUnconfigured ==
    /\ tasks = <<>>
    /\ outputs = EmptyBag
    /\ run = <<>>
    /\ events = 0
    /\ resp = NoResp
    /\ env \in UnconfiguredEnvs
    /\ objects = {}

\* The requests a process started without storage can be sent, and an upload
\* made in it. No task can be inserted, so the steps of a flow that owns a
\* task are never enabled.
NextUnconfigured ==
    \/ Deliver
    \/ GenerateImageUnconfigured
    \/ \E hdr \in AuthHeaders : \E body \in EditBodies : EditRequest(hdr, body)
    \/ \E hdr \in AuthHeaders : \E body \in CompatMaskBodies : CompatRequest(hdr, body)
    \/ \E id \in RequestIds : \E hdr \in AuthHeaders : EditStatus(id, hdr)
    \/ \E id \in RequestIds : \E hdr \in AuthHeaders : JobStatus(id, hdr)
    \/ \E id \in RequestIds : \E hdr \in AuthHeaders : EditResult(id, hdr)
    \/ \E id \in RequestIds : TaskDetail(id)
    \/ \E answer \in Answers : StoreUpload(answer)

SpecUnconfigured == InitUnconfigured /\ [][NextUnconfigured]_vars

\* -------------------------------------------- the requests to the backend
\* The base instruction lookupStyleAndPrompt returns (Null: undefined).
Bases == {Null, Some(""), Some("Anime style")}

Qualities == {Null, Some(""), Some("high")}

PromptTexts == {Null, Some(""), Some("make it glow")}

\* The filters a request names.
FilterChoices ==
    << Filter("grain", JsonDecimal(0, 4)), Filter("warm", JsonAbsent),
       Filter("sat", JsonString("")), Filter("blur", JsonDecimal(2, 0)) >>

\* Lists of at most two filters.
FilterLists ==
    {<<>>} \cup { <<FilterChoices[i]>> : i \in DOMAIN FilterChoices }
           \cup { <<FilterChoices[i], FilterChoices[j]>> :
                      i \in DOMAIN FilterChoices, j \in DOMAIN FilterChoices }

\* compilePrompt is applied to a base instruction and the options of a
\* request.
CompilePrompt(base, opts) ==
    /\ resp = NoResp
    /\ resp' = [op |-> "compile", base |-> base, opts |-> opts,
                prompt |-> compilePrompt(base, opts)]
    /\ UNCHANGED <<tasks, outputs, run, events, env, objects>>

\* opts.maskBuffer: undefined, null or a Buffer of some length.
MaskUndefined == [kind |-> "undefined", length |-> 0]
MaskNull == [kind |-> "null", length |-> 0]
MaskBuffer(n) == [kind |-> "buffer", length |-> n]

MaskInputs == {MaskUndefined, MaskNull, MaskBuffer(0), MaskBuffer(5)}

\* The text runEditGeneration appends to the prompt.
MaskSuffix ==
    "\n\nApply edits only to regions marked in the provided mask: white=edit, black=keep."

\* opts.maskBuffer ? `${opts.prompt}${suffix}` : opts.prompt
EditInstruction(prompt, mask) ==
    IF mask.kind = "buffer" THEN prompt \o MaskSuffix ELSE prompt

\* The parts runEditGeneration sends: the instruction, the image, and the
\* mask if (opts.maskBuffer && opts.maskBuffer.length).
EditParts(prompt, mask) ==
    << [text |-> EditInstruction(prompt, mask)],
       [inlineData |-> "image", mimeType |-> "image/jpeg"] >>
    \o (IF mask.kind = "buffer" /\ mask.length # 0
        THEN << [inlineData |-> "mask", mimeType |-> "image/png"] >>
        ELSE <<>>)

\* runEditGeneration builds the contents of its request to the backend.
BuildEditContents(prompt, mask) ==
    /\ resp = NoResp
    /\ resp' = [op |-> "contents", prompt |-> prompt, mask |-> mask,
                parts |-> EditParts(prompt, mask)]
    /\ UNCHANGED <<tasks, outputs, run, events, env, objects>>

NextRequests ==
    \/ Deliver
    \/ \E prompt \in {"p", " "} : \E mask \in MaskInputs : BuildEditContents(prompt, mask)
    \/ \E base \in Bases : \E q \in Qualities : \E f \in FilterLists :
          \E p \in PromptTexts : CompilePrompt(base, PromptOpts(q, f, p))

SpecRequests == Init /\ [][NextRequests]_vars

\* ------------------------------------------------ POST /v1/edits with a mask
\* maskRes && maskRes.ok ? Buffer.from(await maskRes.arrayBuffer()) : null
CompatMaskBuf(r) == IF r.fetched.mask = "ok" THEN MaskBuffer(5) ELSE MaskNull

\* The callers of the path: one without a credential, one with the dev token.
CompatHeaders == {Null, Some([scheme |-> "Bearer", token |-> devToken])}

\* What the streams of the path yield: an image small enough to be sent
\* inline, and a text.
CompatChunks ==
    { Chunk(1, TRUE, InlineLimit - 1, <<>>, Null),
      Chunk(1, FALSE, 0, <<>>, Some("a")) }

\* The compatibility edit path alone, asked with and without a mask.
NextCompat ==
    \/ Deliver
    \/ \E hdr \in CompatHeaders : \E body \in CompatMaskBodies : CompatRequest(hdr, body)
    \/ \E t \in TaskIds : \E m \in MaskFetches(t) : CompatDownload(t, m)
    \/ \E t \in TaskIds : \E i \in {"rejected", "not-ok"} : \E m \in MaskFetches(t) :
          CompatDownloadFails(t, i, m)
    \/ \E t \in TaskIds : Invoke(t)
    \/ \E t \in TaskIds : EditInvokeThrows(t)
    \/ \E t \in TaskIds : \E c \in CompatChunks : StreamChunk(t, c)
    \/ \E t \in TaskIds : \E e \in StreamErrors : StreamThrows(t, e)
    \/ \E t \in TaskIds : JobFinalize(t)

SpecCompat == Init /\ [][NextCompat]_vars

\* --------------------------------------------------------------- properties
\* The output rows of task t.
RowsOf(t) == {r \in BagToSet(outputs) : r.task_id = t}

\* The chunk's first part carries an image: inline bytes or a hosted URI.
CarriesImage(c) == c.nparts > 0 /\ (c.inlineData \/ c.uri # <<>>)

\* The chunk is a text chunk: its first part carries no image and the chunk
\* has a text.
IsTextChunk(c) == c.nparts > 0 /\ ~c.inlineData /\ c.uri = <<>> /\ c.text # Null

\* The image and external-reference chunks the stream of t emitted, in order.
ImageChunks(t) == SelectSeq(run[t].emitted, CarriesImage)

\* The texts of the text chunks of s, concatenated in order.
RECURSIVE ConcatText(_)
ConcatText(s) ==
    IF s = <<>> THEN ""
    ELSE (IF IsTextChunk(Head(s)) THEN Head(s).text[1] ELSE "") \o ConcatText(Tail(s))

\* Row r records chunk c of task t.
RowRecords(t, r, c) ==
    IF c.inlineData
    THEN /\ r.storage_bucket = "gen-images"
         /\ r.storage_path = <<t, r.index>>
         /\ r.size = Some(c.bytes)
    ELSE /\ r.storage_bucket = "external-url"
         /\ r.storage_path = c.uri
         /\ r.size = Null

\* The rows of t are one row per chunk of imgs, indexed 0..Len(imgs)-1 in the
\* order of imgs.
RowsMatch(t, imgs) ==
    /\ \A r \in RowsOf(t) : CopiesIn(r, outputs) = 1
    /\ Cardinality(RowsOf(t)) = Len(imgs)
    /\ {r.index : r \in RowsOf(t)} = 0..(Len(imgs) - 1)
    /\ \A r \in RowsOf(t) : RowRecords(t, r, imgs[r.index + 1])

\* The row of t with the lowest index.
Primary(t) == CHOOSE r \in RowsOf(t) : \A q \in RowsOf(t) : r.index <= q.index

\* C1: terminal states are absorbing.  Once the status of a task is succeeded
\* or failed, no step changes its status or its completed_at, so no task is
\* succeeded at one time and failed at another.
TerminalAbsorbing ==
    [][\A t \in TaskIds :
          tasks[t].status \in Terminal =>
              /\ tasks'[t].status = tasks[t].status
              /\ tasks'[t].completed_at = tasks[t].completed_at]_vars

\* A task ended succeeded, and the store was updated for another task that
\* ended failed.
TerminalAbsorbingWitness ==
    \E t, u \in TaskIds :
        /\ tasks[t].status = "succeeded"
        /\ tasks[u].status = "failed"
        /\ tasks[t].completed_at # Null

\* C2: in every reachable state and for every task, completed_at is null if
\* and only if the status is queued or running.
CompletedAtIffTerminal ==
    \A t \in TaskIds :
        (tasks[t].completed_at = Null) <=> (tasks[t].status \in {"queued", "running"})

\* A task was finalized while another one, still running, had its params
\* enriched.
CompletedAtIffTerminalWitness ==
    \E t, u \in TaskIds :
        /\ tasks[t].status = "failed"
        /\ tasks[t].completed_at # Null
        /\ tasks[u].status = "running"
        /\ "originalPath" \in DOMAIN tasks[u].params

\* C3: in every reachable state, mid-stream and after a failure included, the
\* output rows of a task have the indexes 0..n-1 without gap or duplicate, and
\* the row of index i records the i-th image or external-reference chunk the
\* stream emitted (a chunk whose upload or insert was rejected has no row and
\* is the last one).
OutputIndexesDense ==
    \A t \in TaskIds :
        LET imgs == ImageChunks(t)
        IN  RowsMatch(t, IF run[t].raised \in {"upload", "insert"}
                         THEN SubSeq(imgs, 1, Len(imgs) - 1)
                         ELSE imgs)

\* Mid-stream, a task has an inline image row and an external reference row.
OutputIndexesDenseWitness ==
    \E t \in TaskIds :
        /\ run[t].pc = "stream"
        /\ Cardinality(RowsOf(t)) = 2
        /\ \E r, q \in RowsOf(t) : r.size = Null /\ q.size # Null

\* C4: in the immediate flow, an error raised by the backend invocation itself
\* (after the row was created in running, before the first chunk) turns the
\* task failed; it is not left running.
InvokeErrorFailsTask ==
    \A t \in TaskIds :
        run[t].flow = "immediate" /\ run[t].raised = "invoke"
            => tasks[t].status = "failed"

\* C5: every task created by POST /api/v1/edit or POST /v1/edits ends
\* succeeded or failed: once its handler and its detached job have nothing
\* left to do, a failure of the record-keeping upload included, its status is
\* terminal.
EditTaskEndsTerminal ==
    \A t \in TaskIds :
        run[t].flow \in {"edit", "compat"} /\ run[t].pc = "done"
            => tasks[t].status \in Terminal

ResultDeliveryPolicy ==
    resp.op = "result" /\ resp.code \in {200, 302} =>
        LET first == Primary(resp.id)
            small == first.size # Null /\ first.size[1] # 0 /\ first.size[1] < 800000
        IN  /\ RowsOf(resp.id) # {}
            /\ (resp.code = 200) <=> small
            /\ first.size = Some(799999) => resp.code = 200
            /\ first.size = Some(800000) => resp.code = 302
            /\ first.size = Null => resp.code = 302
            /\ resp.code = 200 =>
                   resp.result_base64 = downloadToBase64(first.storage_bucket,
                                                         first.storage_path)
            /\ resp.code = 302 =>
                   resp.location = signedUrl(first.storage_bucket,
                                             first.storage_path, 300)

\* An output of 799,999 bytes was returned inline.
ResultDeliveryPolicyWitness ==
    /\ resp.op = "result"
    /\ resp.code = 200
    /\ Primary(resp.id).size = Some(799999)

\* C9: fetch result answers neither content nor a redirect for a task that is
\* not succeeded, output rows or not: the caller who may see the task gets
\* "Result not available".
NoResultUnlessSucceeded ==
    resp.op = "result" /\ resp.id \in TaskIds /\ tasks[resp.id].status # "succeeded" =>
        /\ resp.code \notin {200, 302}
        /\ "result_base64" \notin DOMAIN resp
        /\ "location" \notin DOMAIN resp
        /\ resp.user # Null =>
               resp.code = 400 /\ resp.error = "Result not available"

\* The result of a failed task that has an output row was asked for.
NoResultUnlessSucceededWitness ==
    /\ resp.op = "result"
    /\ resp.code = 400
    /\ tasks[resp.id].status = "failed"
    /\ RowsOf(resp.id) # {}

\* The resolved URL of the output of t with the lowest index, if t is
\* succeeded and has an output.
ExpectedResultUrl(t) ==
    IF tasks[t].status = "succeeded" /\ RowsOf(t) # {}
    THEN Some(getPublicUrl(Primary(t).storage_bucket, Primary(t).storage_path))
    ELSE Null

\* C10, as stated: every poll reports running as processing, succeeded as
\* done, failed as error and queued as queued, with a result URL only when
\* the task is succeeded.
PollStatusRemapped ==
    resp.op \in {"status", "job"} /\ resp.code = 200 =>
        /\ resp.status = (CASE tasks[resp.id].status = "running"   -> "processing"
                            [] tasks[resp.id].status = "succeeded" -> "done"
                            [] tasks[resp.id].status = "failed"    -> "error"
                            [] tasks[resp.id].status = "queued"    -> "queued")
        /\ resp.result_url = ExpectedResultUrl(resp.id)

\* C10, amended: GET /api/v1/edit/:id reports running as processing,
\* succeeded as done, failed as error and queued as queued; GET /v1/jobs/:id
\* reports running as running, succeeded as done, failed as failed and queued
\* as queued; both include the resolved URL of the lowest-index output only
\* when the task is succeeded, and no result URL in any other state.
PollStatusWords ==
    /\ resp.op = "status" /\ resp.code = 200 =>
           resp.status = (CASE tasks[resp.id].status = "running"   -> "processing"
                            [] tasks[resp.id].status = "succeeded" -> "done"
                            [] tasks[resp.id].status = "failed"    -> "error"
                            [] tasks[resp.id].status = "queued"    -> "queued")
    /\ resp.op = "job" /\ resp.code = 200 =>
           resp.status = (CASE tasks[resp.id].status = "running"   -> "running"
                            [] tasks[resp.id].status = "succeeded" -> "done"
                            [] tasks[resp.id].status = "failed"    -> "failed"
                            [] tasks[resp.id].status = "queued"    -> "queued")
    /\ resp.op \in {"status", "job"} /\ resp.code = 200 =>
           resp.result_url = ExpectedResultUrl(resp.id)

\* GET /v1/jobs/:id answered for a task that failed after an output row was
\* persisted.
PollStatusWordsWitness ==
    /\ resp.op = "job"
    /\ resp.code = 200
    /\ resp.status = "failed"
    /\ RowsOf(resp.id) # {}

\* ------------------------------------------------------------------- C11
\* The endpoints that ask for a credential.
AuthenticatedOps == {"edit", "edits", "status", "job", "result"}

\* The fields of the answer to a request without a valid credential.
UnauthorizedFields(op) ==
    IF op \in {"edit", "edits"} THEN {"op", "user", "code", "error"}
    ELSE {"op", "id", "user", "code", "error"}

\* C11: a request without a valid credential to POST /api/v1/edit,
\* POST /v1/edits, GET /api/v1/edit/:id, GET /v1/jobs/:id or
\* GET /api/v1/edit/:id/result is answered 401 "Unauthorized" and nothing
\* else, in a step that leaves the task rows, the output rows, the stored
\* objects and every backend call as they were; and a task of the edit
\* endpoints is only ever created for the authenticated user.
UnauthorizedBeforeAnything ==
    [][ /\ (resp = NoResp /\ resp' # NoResp /\ resp'.op \in AuthenticatedOps
            /\ resp'.user = Null)
          => /\ resp'.code = 401
             /\ resp'.error = "Unauthorized"
             /\ DOMAIN resp' = UnauthorizedFields(resp'.op)
             /\ UNCHANGED <<tasks, outputs, run>>
        /\ (Len(tasks') > Len(tasks) /\ run'[Len(tasks')].flow \in {"edit", "compat"})
          => tasks'[Len(tasks')].params.userId = "dev-user" ]_vars

\* A request without a valid credential was answered while the store held a
\* task with an output row.
UnauthorizedBeforeAnythingWitness ==
    /\ resp # NoResp
    /\ resp.op \in AuthenticatedOps
    /\ resp.user = Null
    /\ resp.code = 401
    /\ \E t \in TaskIds : RowsOf(t) # {}

\* ------------------------------------------------------------------- C12
\* The body has the file and a non-empty prompt.
EditComplete(body) == body.file /\ body.prompt # ""

\* The body has a non-blank prompt and an image URL.
CompatComplete(body) ==
    /\ body.prompt.type = "string" /\ Trim(body.prompt.value) # ""
    /\ body.imageUrl.type = "string" /\ body.imageUrl.value # ""

GenerationSites == {"download", "invoke", "upload", "insert", "stream", "finalize"}

\* The answer of POST /api/v1/edit to an accepted request for task t.
AcceptedResponse(t) ==
    [op |-> "edit", id |-> t, user |-> Some("dev-user"), code |-> 200,
     status |-> "accepted"]

\* The answer of POST /v1/edits to an accepted request for task t.
RunningResponse(t) ==
    [op |-> "edits", id |-> t, user |-> Some("dev-user"), code |-> 200,
     status |-> "running", resultUrl |-> Null]

\* C13: the create-edit handlers answer before the detached generation has
\* received anything from the backend: the answer is the fixed
\* accepted/running answer with the task id, given while the task is running
\* with no output, so it is the same whether the generation then succeeds or
\* fails; an error of the generation is never answered to the create request
\* and shows only as the failed status and error of the task.
AcceptedBeforeGeneration ==
    /\ (resp.op = "edit" /\ resp.code = 200)
          => /\ resp = AcceptedResponse(resp.id)
             /\ resp.id \in TaskIds
             /\ run[resp.id].flow = "edit" /\ run[resp.id].pc = "invoke"
             /\ tasks[resp.id].status = "running"
             /\ RowsOf(resp.id) = {}
    /\ (resp.op = "edits" /\ resp.code = 200)
          => /\ resp = RunningResponse(resp.id)
             /\ resp.id \in TaskIds
             /\ run[resp.id].flow = "compat" /\ run[resp.id].pc = "download"
             /\ tasks[resp.id].status = "running"
             /\ RowsOf(resp.id) = {}
    /\ (resp.op \in {"edit", "edits"} /\ resp.code = 500)
          => run[resp.id].raised \notin GenerationSites
    /\ \A t \in TaskIds :
          (run[t].flow \in {"edit", "compat"} /\ run[t].raised \in GenerationSites)
            => /\ tasks[t].status = "failed"
               /\ tasks[t].error # Null

\* After its request was accepted, the generation of an edit task failed in
\* the middle of the stream, and that of another succeeded.
AcceptedBeforeGenerationWitness ==
    /\ resp = NoResp
    /\ \E t \in TaskIds :
          /\ run[t].flow = "edit" /\ run[t].raised = "stream"
          /\ tasks[t].status = "failed"
    /\ \E t \in TaskIds :
          /\ run[t].flow = "compat" /\ run[t].pc = "done"
          /\ tasks[t].status = "succeeded"

\* ------------------------------------------------------------------- C14
\* C14: no task has both error and output_text; a task with an error is
\* failed and a task with an output_text is succeeded; and each of the two
\* finalizing updates writes only one of the two fields.
ErrorXorOutputText ==
    /\ \A t \in TaskIds :
          /\ ~(tasks[t].error # Null /\ tasks[t].output_text # Null)
          /\ tasks[t].error # Null => tasks[t].status = "failed"
          /\ tasks[t].output_text # Null => tasks[t].status = "succeeded"
    /\ \A t \in TaskIds : \A err \in {InvokeError, StoreError} :
          /\ "error" \notin DOMAIN SucceededPatch(run[t].textOut, Now(tasks[t]))
          /\ "output_text" \notin DOMAIN FailedPatch(err, Now(tasks[t]))

\* One task failed with its error recorded, and another succeeded with its
\* text recorded.
ErrorXorOutputTextWitness ==
    /\ \E t \in TaskIds :
          tasks[t].status = "failed" /\ tasks[t].error # Null
    /\ \E t \in TaskIds :
          tasks[t].status = "succeeded" /\ tasks[t].output_text # Null

\* ------------------------------------------------------------------- C15
\* C15: in the immediate flow, whenever POST /generate-image ends with an
\* error for a task whose row exists, that task was first finalized to failed
\* with the error's message recorded.
ErrorAnswerAfterFailedUpdate ==
    (resp.op = "generate" /\ resp.code = 500 /\ "id" \in DOMAIN resp)
        => /\ tasks[resp.id].status = "failed"
           /\ tasks[resp.id].error # Null

\* ------------------------------------------------------------------- C16
\* C16: in the immediate flow the task row is inserted, in running, before
\* the backend is invoked: every generation context belongs to an inserted
\* row, a context that has not yet invoked the backend has a running row with
\* no chunk received and no output, a request whose insert failed has no
\* context at all, and every output row is attached to the inserted row of
\* the generation whose chunk it records.
RowBeforeBackend ==
    /\ Len(run) = Len(tasks)
    /\ \A t \in TaskIds :
          (run[t].flow = "immediate" /\ run[t].pc = "invoke")
            => /\ tasks[t].status = "running"
               /\ run[t].emitted = <<>>
               /\ RowsOf(t) = {}
    /\ \A r \in BagToSet(outputs) :
          /\ r.task_id \in TaskIds
          /\ r.index + 1 \in 1..Len(ImageChunks(r.task_id))
          /\ RowRecords(r.task_id, r, ImageChunks(r.task_id)[r.index + 1])
    /\ (resp.op = "generate" /\ "id" \in DOMAIN resp) => resp.id \in TaskIds

\* A request whose insert failed was answered while an earlier immediate
\* generation had its output row.
RowBeforeBackendWitness ==
    /\ resp.op = "generate" /\ "id" \notin DOMAIN resp
    /\ \E t \in TaskIds : run[t].flow = "immediate" /\ RowsOf(t) # {}

\* ------------------------------------------------------------------- C17
\* C17: every task is created running, by each of the three creation paths;
\* the only changes of status are running to succeeded and running to failed;
\* no task is ever queued.
OnlyRunningThenTerminal ==
    [][ \A t \in 1..Len(tasks') :
          /\ tasks'[t].status # "queued"
          /\ t > Len(tasks) => tasks'[t].status = "running"
          /\ (t <= Len(tasks) /\ tasks'[t].status # tasks[t].status)
                => /\ tasks[t].status = "running"
                   /\ tasks'[t].status \in {"succeeded", "failed"} ]_vars

\* Tasks of the three creation paths exist, one still running, one succeeded
\* and one failed.
OnlyRunningThenTerminalWitness ==
    /\ {run[t].flow : t \in TaskIds} = {"immediate", "edit", "compat"}
    /\ {tasks[t].status : t \in TaskIds} = {"running", "succeeded", "failed"}

\* ------------------------------------------------------------------- C18
\* The development token the environment configures, if it configures one.
ConfiguredToken ==
    IF env.DEV_TOKEN = Null \/ env.DEV_TOKEN = Some("") THEN Null ELSE env.DEV_TOKEN

\* C18: a request is authenticated exactly when its Authorization header is
\* a bearer credential whose token equals the development token the
\* environment configures; without a header, with another scheme, with
\* another token, or when no development token is configured, it is not.
AuthenticatedIffConfiguredToken ==
    resp.op = "auth"
        => (resp.user # Null
              <=> /\ ConfiguredToken # Null
                  /\ resp.header # Null
                  /\ resp.header[1].scheme \in BearerSchemes
                  /\ resp.header[1].token = ConfiguredToken[1])

\* ------------------------------------------------------------------- C19
\* The environment configures a pinning credential.
PinningConfigured == env.PINATA_JWT # Null /\ env.PINATA_JWT # Some("")

\* The outcome used the bucket backend.
UsedBucketBackend(outcome) ==
    \E i \in DOMAIN outcome.calls : outcome.calls[i].service = "supabase"

ExternalUrlShortCircuit ==
    /\ (resp.op = "resolve" /\ resp.at.bucket = "external-url")
          => /\ resp.public = Returned(<<>>, resp.at.path)
             /\ resp.signed = Returned(<<>>, resp.at.path)
    /\ (resp.op = "download" /\ resp.at.bucket = "external-url")
          => /\ resp.calls = <<Call("fetch", resp.at.path)>>
             /\ resp.answer = "ok"
                  => /\ resp.value = Some(downloadToBase64("external-url", resp.at.path))
                     /\ resp.error = Null
             /\ resp.answer # "ok"
                  => /\ resp.value = Null
                     /\ resp.error = Some("Fetch failed")

\* With a pinning credential configured and no bucket backend, the base64 of
\* an output stored under "external-url" was fetched.
ExternalUrlShortCircuitWitness ==
    /\ resp.op = "download"
    /\ resp.at.bucket = "external-url"
    /\ PinningConfigured
    /\ ~env.SUPABASE
    /\ resp.value # Null

\* ------------------------------------------------------------------- C21
\* The line of each segment, or no line when the segment is absent or empty.
BaseLine(base) == IF base \in {Null, Some("")} THEN <<>> ELSE <<base[1]>>
QualityLine(q) == IF q \in {Null, Some("")} THEN <<>> ELSE <<"Quality: " \o q[1]>>
TextLine(p) == IF p \in {Null, Some("")} THEN <<>> ELSE <<p[1]>>
FiltersLine(fs) ==
    CASE Len(fs) = 0 -> <<>>
      [] Len(fs) = 1 -> <<"Filters: " \o RenderFilter(fs[1])>>
      [] Len(fs) = 2 -> <<"Filters: " \o RenderFilter(fs[1]) \o ", " \o RenderFilter(fs[2])>>

\* The input of the example.
ExampleOpts ==
    PromptOpts(Some("high"),
               <<Filter("grain", JsonDecimal(0, 4)), Filter("warm", JsonAbsent)>>,
               Some("make it glow"))

\* C21: the compiled prompt is the lines of the segments that are present,
\* in the order base instruction, "Quality: <quality>", "Filters: " with the
\* filters as slug=value (bare slug without a value) joined by ", ", free-form
\* text, one per line; an absent or empty segment gives no line; and the
\* example compiles to its four lines.
CompiledPromptLines ==
    resp.op = "compile"
        => /\ LET lines == BaseLine(resp.base) \o QualityLine(resp.opts.quality)
                            \o FiltersLine(resp.opts.filters)
                            \o TextLine(resp.opts.promptText)
              IN  resp.prompt =
                    CASE Len(lines) = 0 -> ""
                      [] Len(lines) = 1 -> lines[1]
                      [] Len(lines) = 2 -> lines[1] \o "\n" \o lines[2]
                      [] Len(lines) = 3 -> lines[1] \o "\n" \o lines[2] \o "\n" \o lines[3]
                      [] Len(lines) = 4 -> lines[1] \o "\n" \o lines[2] \o "\n" \o lines[3]
                                              \o "\n" \o lines[4]
           /\ RenderFilter(Filter("grain", JsonDecimal(0, 4))) = "grain=0.4"
           /\ RenderFilter(Filter("warm", JsonAbsent)) = "warm"
           /\ (resp.base = Some("Anime style") /\ resp.opts = ExampleOpts)
                => resp.prompt =
                     "Anime style\nQuality: high\nFilters: grain=0.4, warm\nmake it glow"

\* The example was compiled.
CompiledPromptLinesWitness ==
    /\ resp.op = "compile"
    /\ resp.base = Some("Anime style")
    /\ resp.opts = ExampleOpts
    /\ resp.prompt = "Anime style\nQuality: high\nFilters: grain=0.4, warm\nmake it glow"

\* ------------------------------------------------------------------- C22
\* The output rows of task t in the next state, and those among them that
\* the step inserted.
RowsOfNext(t) == {r \in BagToSet(outputs') : r.task_id = t}
InsertedRows(t) == RowsOfNext(t) \ RowsOf(t)

\* The step consumed a chunk of the stream of t, without error.
ConsumedChunk(t) ==
    /\ run[t].pc = "stream" /\ run'[t].pc = "stream"
    /\ Len(run'[t].emitted) = Len(run[t].emitted) + 1

\* C22: a consumed chunk falls into exactly one class, by its first part
\* alone, inline data before hosted URI before text. It inserts at most one
\* row; with inline data (a hosted URI beside it or not) the row is in the
\* image bucket, with only a hosted URI the row is an external-url row, and
\* in both cases the text of the chunk is not appended to the accumulator;
\* without either, no row is inserted.
OneClassPerChunk ==
    [][ \A t \in TaskIds :
          ConsumedChunk(t) =>
            LET c == run'[t].emitted[Len(run'[t].emitted)]
            IN  /\ BagCardinality(outputs') <= BagCardinality(outputs) + 1
                /\ Cardinality(InsertedRows(t)) <= 1
                /\ (c.nparts > 0 /\ c.inlineData)
                      => /\ \E r \in InsertedRows(t) : r.storage_bucket = imageBucket
                         /\ run'[t].textOut = run[t].textOut
                /\ (c.nparts > 0 /\ ~c.inlineData /\ c.uri # <<>>)
                      => /\ \E r \in InsertedRows(t) : r.storage_bucket = "external-url"
                         /\ run'[t].textOut = run[t].textOut
                /\ (c.nparts = 0 \/ (~c.inlineData /\ c.uri = <<>>))
                      => /\ outputs' = outputs
                         /\ run'[t].index = run[t].index ]_vars

\* A chunk whose first part has inline data and a hosted URI, and which has a
\* text, was consumed: its row is in the image bucket and no text was kept.
OneClassPerChunkWitness ==
    \E t \in TaskIds :
        /\ run[t].pc = "stream"
        /\ run[t].emitted = <<Chunk(1, TRUE, 0, <<"https://cdn/2">>, Some("c"))>>
        /\ run[t].textOut = ""
        /\ \E r \in RowsOf(t) : r.storage_bucket = imageBucket

\* ------------------------------------------------------------------- C23
\* The chunk has a text of its own and its first part, if it has one, has
\* neither inline data nor a hosted URI.
PlainTextChunk(c) ==
    /\ c.text # Null
    /\ c.nparts = 0 \/ (~c.inlineData /\ c.uri = <<>>)

\* The texts of the plain-text chunks of s, concatenated in order.
RECURSIVE PlainText(_)
PlainText(s) ==
    IF s = <<>> THEN ""
    ELSE (IF PlainTextChunk(Head(s)) THEN Head(s).text[1] ELSE "") \o PlainText(Tail(s))

\* C23: a chunk with a text of its own that is neither inline-binary nor an
\* external reference is a text chunk whether or not it has parts: while a
\* stream is consumed the accumulator is the texts of all such chunks
\* received, those without parts included.
TextOfPartlessChunkKept ==
    \A t \in TaskIds :
        run[t].pc = "stream" => run[t].textOut = PlainText(run[t].emitted)

\* ------------------------------------------------------------------- C24
\* All of s but its last element.
Front(s) == SubSeq(s, 1, Len(s) - 1)

\* C24: an inline image is uploaded before its row is inserted, the row
\* records the path the upload returned and the byte length of the decoded
\* image, and the index moves on only after the insert: while a stream is
\* consumed, every image row has its object stored and the rows are those of
\* the image chunks received, the index being their number. When the upload
\* or the insert of a chunk fails, that chunk has no row (an object only if
\* it was the insert that failed), the rows are those of the chunks before
\* it, and that chunk is the last one the stream loop looked at.
UploadBeforeInsertBeforeIndex ==
    /\ \A r \in BagToSet(outputs) :
          r.storage_bucket = imageBucket => r.storage_path \in objects
    /\ \A t \in TaskIds :
          /\ run[t].pc = "stream"
                => /\ RowsMatch(t, ImageChunks(t))
                   /\ run[t].index = Len(ImageChunks(t))
          /\ run[t].raised \in {"upload", "insert"}
                => /\ run[t].pc = "done"
                   /\ tasks[t].status = "failed"
                   /\ CarriesImage(run[t].emitted[Len(run[t].emitted)])
                   /\ RowsMatch(t, Front(ImageChunks(t)))
                   /\ run[t].raised = "upload"
                        => FilePath(t, Len(ImageChunks(t)) - 1) \notin objects

\* After one image was stored and recorded, the insert of the row of a
\* second, uploaded image was rejected.
UploadBeforeInsertBeforeIndexWitness ==
    \E t \in TaskIds :
        /\ run[t].raised = "insert"
        /\ Len(run[t].emitted) = 2
        /\ Cardinality(RowsOf(t)) = 1
        /\ FilePath(t, 0) \in objects
        /\ FilePath(t, 1) \in objects

\* ------------------------------------------------------------------- C25
\* C25: while a stream is consumed, each external-reference chunk received
\* has exactly one row, at the index the chunk was received at, with
\* storage_bucket "external-url", storage_path the URI as received and size
\* null; the index has moved on by one for it, and nothing was uploaded for
\* it.
ExternalRefRecordedVerbatim ==
    \A t \in TaskIds :
        run[t].pc = "stream" =>
            LET imgs == ImageChunks(t)
            IN  /\ run[t].index = Len(imgs)
                /\ \A i \in DOMAIN imgs :
                      ~imgs[i].inlineData
                        => /\ {r \in RowsOf(t) : r.index = i - 1} =
                                { [task_id |-> t, index |-> i - 1,
                                   storage_bucket |-> "external-url",
                                   storage_path |-> imgs[i].uri, size |-> Null] }
                           /\ \A r \in RowsOf(t) :
                                 r.index = i - 1 => CopiesIn(r, outputs) = 1
                           /\ FilePath(t, i - 1) \notin objects

\* An external-reference chunk was received after an inline image.
ExternalRefRecordedVerbatimWitness ==
    \E t \in TaskIds :
        /\ run[t].pc = "stream"
        /\ Len(ImageChunks(t)) = 2
        /\ ImageChunks(t)[1].inlineData
        /\ ~ImageChunks(t)[2].inlineData
        /\ objects = {FilePath(t, 0)}

\* ------------------------------------------------------------------- C26
\* C26: in the request runEditGeneration sends, the instruction ends with the
\* mask suffix exactly when a mask part is sent after the image, for a mask
\* that is absent, null, an empty buffer or a non-empty buffer.
SuffixIffMaskPart ==
    resp.op = "contents"
        => /\ resp.parts[1].text \in {resp.prompt, resp.prompt \o MaskSuffix}
           /\ resp.parts[1].text = resp.prompt \o MaskSuffix <=> Len(resp.parts) = 3

\* ------------------------------------------------------------------- C27
\* Task t belongs to a detached job and runEditGeneration is running for it.
InEditFlow(t) ==
    run[t].flow \in {"edit", "compat"} /\ run[t].pc \in {"invoke", "stream"}

\* C27: runEditGeneration inserts no task and writes no task field. While it
\* runs for a task, that task's row is unchanged and the only rows added are
\* output rows of that task; the row changes only in the step in which the
\* flow ends, by the one update of its caller: to succeeded with the text the
\* flow returned, or to failed with the error it raised. A task is inserted
\* only by a step that moves no flow.
EditFlowLeavesTaskAlone ==
    [][ /\ \A t \in TaskIds :
              InEditFlow(t) =>
                /\ run'[t].pc # "done" => tasks'[t] = tasks[t]
                /\ run'[t].pc = "done"
                      => \/ /\ tasks'[t] = ApplyPatch(tasks[t],
                                    SucceededPatch(run[t].textOut, Now(tasks[t])))
                            /\ run'[t].raised = "none"
                         \/ /\ tasks'[t].status = "failed"
                            /\ tasks'[t].error # Null
                            /\ tasks'[t].output_text = Null
                            /\ run'[t].raised # "none"
                /\ RowsOf(t) \subseteq RowsOfNext(t)
                /\ \A r \in BagToSet(outputs') :
                      (r \notin BagToSet(outputs) /\ run'[t] # run[t]) => r.task_id = t
        /\ Len(tasks') >= Len(tasks)
        /\ Len(tasks') > Len(tasks)
              => /\ Len(tasks') = Len(tasks) + 1
                 /\ \A t \in TaskIds : run'[t] = run[t] /\ tasks'[t] = tasks[t]
                 /\ outputs' = outputs ]_vars

\* runEditGeneration has recorded two outputs for a task that is still as its
\* handler left it.
EditFlowLeavesTaskAloneWitness ==
    \E t \in TaskIds :
        /\ run[t].flow = "edit"
        /\ run[t].pc = "stream"
        /\ Cardinality(RowsOf(t)) = 2
        /\ tasks[t].status = "running"
        /\ tasks[t].completed_at = Null

\* The rows a step adds to the outputs.
AddedRows == {r \in BagToSet(outputs') : CopiesIn(r, outputs') > CopiesIn(r, outputs)}

LeavesRunning(t) == tasks[t].status = "running" /\ tasks'[t].status # "running"

\* C29: a task leaves running only by the exhaustion of its stream or by an
\* error of its own flow. A step in which a running task stops running is a
\* step that ends the request context owning the task: either the stream was
\* being consumed and ended, and the task is succeeded, or the flow raised,
\* and the task is failed with the error. A step that does not move the
\* context of a task (the stream neither yields, ends nor fails: a poll, a
\* result fetch, a new create, a step of another task) keeps its status.
RunningUntilExhaustionOrError ==
    [][\A t \in TaskIds :
          /\ LeavesRunning(t) =>
                /\ run[t].pc # "done"
                /\ run'[t].pc = "done"
                /\ Len(tasks') = Len(tasks)
                /\ \A u \in TaskIds \ {t} : run'[u] = run[u] /\ tasks'[u] = tasks[u]
                /\ resp' # resp =>
                      /\ resp'.op \in {"generate", "edit", "edits"}
                      /\ resp'.id = t
                /\ \/ /\ tasks'[t].status = "succeeded"
                      /\ run[t].pc = "stream"
                      /\ run'[t].raised = "none"
                   \/ /\ tasks'[t].status = "failed"
                      /\ run'[t].raised # "none"
                      /\ tasks'[t].error # Null
          /\ run'[t] = run[t] => tasks'[t].status = tasks[t].status]_vars

\* A task whose stream is stalled is still running after a later request
\* created another task and a poll of the first one was answered processing.
RunningUntilExhaustionOrErrorWitness ==
    \E t, u \in TaskIds :
        /\ t < u
        /\ tasks[t].status = "running"
        /\ run[t].pc = "stream"
        /\ run[t].emitted = <<>>
        /\ resp.op = "status"
        /\ resp.id = t
        /\ resp.code = 200
        /\ resp.status = "processing"

\* The responses of the reading endpoints: GET /api/v1/edit/:id, GET
\* /v1/jobs/:id, GET /api/v1/edit/:id/result and GET /tasks/:id.
ReadOps == {"status", "job", "result", "task"}

\* The step is the handling of a read.
ReadStep == resp = NoResp /\ resp' # NoResp /\ resp'.op \in ReadOps

\* C30: status polling and result fetching only read. A step that handles a
\* read, whatever its answer and wherever the running generations are,
\* leaves every task row, every output row, every stored object and every
\* request context as it was; and the step that makes a task terminal is a
\* step of the context that owns the task, which it ends.
ReadersOnlyRead ==
    [][ /\ ReadStep => /\ tasks' = tasks
                       /\ outputs' = outputs
                       /\ objects' = objects
                       /\ run' = run
        /\ \A t \in TaskIds :
              (tasks[t].status \notin Terminal /\ tasks'[t].status \in Terminal)
                 => /\ ~ReadStep
                    /\ run[t].pc \in {"uploads", "download", "invoke", "stream"}
                    /\ run'[t] # run[t]
                    /\ run'[t].flow = run[t].flow
                    /\ run'[t].pc = "done" ]_vars

\* GET /tasks/:id was answered with a running task and its first output
\* while the stream of the task was being consumed.
ReadersOnlyReadWitness ==
    \E t \in TaskIds :
        /\ run[t].pc = "stream"
        /\ run[t].index = 1
        /\ tasks[t].status = "running"
        /\ resp.op = "task"
        /\ resp.id = t
        /\ resp.code = 200
        /\ resp.task.status = "running"
        /\ Len(resp.outputs) = 1

\* In the step, the loop of task t took chunk c from its stream.
Consumes(t, c) ==
    /\ run[t].pc = "stream"
    /\ run'[t].emitted = Append(run[t].emitted, c)

\* C31: output rows are append-only. No step removes or alters a row that is
\* there: every row is in the outputs after the step as often as before. The
\* outputs change only in a step in which the loop of one task took an inline
\* image or an external reference from its stream and went on, and that step
\* adds exactly one row; such a chunk taken without an error always adds its
\* row, and a chunk of another kind, or one whose processing raised, adds none.
OutputsAppendOnly ==
    [][ /\ \A r \in BagToSet(outputs) : CopiesIn(r, outputs') >= CopiesIn(r, outputs)
        /\ BagCardinality(outputs') \in {BagCardinality(outputs), BagCardinality(outputs) + 1}
        /\ outputs' # outputs
              => \E t \in TaskIds : \E c \in Chunks :
                    /\ Consumes(t, c)
                    /\ CarriesImage(c)
                    /\ run'[t].pc = "stream"
                    /\ \A r \in AddedRows : r.task_id = t
        /\ \A t \in TaskIds : \A c \in Chunks :
              Consumes(t, c) =>
                 ((CarriesImage(c) /\ run'[t].pc = "stream")
                     <=> BagCardinality(outputs') = BagCardinality(outputs) + 1) ]_vars

\* A task ended succeeded with the two rows its stream had added one after
\* the other still there.
OutputsAppendOnlyWitness ==
    \E t \in TaskIds :
        /\ tasks[t].status = "succeeded"
        /\ Len(ImageChunks(t)) = 2
        /\ \E r, q \in RowsOf(t) : r.index = 0 /\ q.index = 1

\* The keys POST /api/v1/edit records in params when it creates a task.
CreationKeys == {"userId", "clientRequestId", "provider"}

\* C32: the params of a task are never cleared. Every key of the params of a
\* task is still there after any step, with the value it had; the only keys a
\* step adds are the two upload paths of the enrichment; and a step that
\* changes the status of a task (a terminal update) leaves its params as they
\* were. So a task created by POST /api/v1/edit has its creation keys in every
\* state.
ParamsNeverCleared ==
    [][\A t \in TaskIds :
          /\ \A k \in DOMAIN tasks[t].params :
                /\ k \in DOMAIN tasks'[t].params
                /\ tasks'[t].params[k] = tasks[t].params[k]
          /\ (DOMAIN tasks'[t].params) \ (DOMAIN tasks[t].params)
                \subseteq {"originalPath", "maskPath"}
          /\ tasks'[t].status # tasks[t].status => tasks'[t].params = tasks[t].params
          /\ run[t].flow = "edit" => CreationKeys \subseteq DOMAIN tasks[t].params]_vars

\* A task of POST /api/v1/edit ended failed after its enrichment: its params
\* have the upload path next to the user id and the provider of its creation.
ParamsNeverClearedWitness ==
    \E t \in TaskIds :
        /\ run[t].flow = "edit"
        /\ tasks[t].status = "failed"
        /\ "originalPath" \in DOMAIN tasks[t].params
        /\ tasks[t].params.userId = "dev-user"
        /\ tasks[t].params.provider = "gemini"

\* The job of POST /v1/edits for task t has had the answers of its fetches.
Downloaded(t) == run[t].flow = "compat" /\ run[t].fetched.img # "none"

NoBackend == ~ConfigOf(env).supabaseAdmin /\ ~isPinataEnabled(ConfigOf(env))

NoOutputAfterTerminal ==
    [][ /\ \A r \in AddedRows :
              /\ r.task_id \in TaskIds
              /\ tasks[r.task_id].status = "running"
        /\ \A t \in TaskIds :
              tasks[t].status \in Terminal =>
                 /\ RowsOfNext(t) = RowsOf(t)
                 /\ \A r \in RowsOf(t) : CopiesIn(r, outputs') = CopiesIn(r, outputs)
                 /\ FirstOutput(t)' = FirstOutput(t)
                 /\ tasks'[t].status \in Terminal ]_vars

\* A poll answered done with the URL of the first output of a task that had
\* ended succeeded.
NoOutputAfterTerminalWitness ==
    \E t \in TaskIds :
        /\ tasks[t].status = "succeeded"
        /\ RowsOf(t) # {}
        /\ resp.op = "status"
        /\ resp.code = 200
        /\ resp.id = t
        /\ resp.status = "done"
        /\ resp.result_url # Null

\* The stream of task t was exhausted without an error and never yielded an
\* image or an external reference.
ExhaustedWithoutImage(t) ==
    /\ run[t].pc = "done"
    /\ run[t].raised = "none"
    /\ ImageChunks(t) = <<>>

\* C36: a stream exhausted without error that yielded no image and no
\* external reference (nothing, only texts, only chunks that are skipped)
\* leaves its task succeeded with no output. A status poll that is let
\* through for such a task reports done with a null result URL, and a result
\* fetch that is let through answers 404 not found, neither content nor a
\* redirect.
SucceededWithoutOutput ==
    \A t \in TaskIds :
        ExhaustedWithoutImage(t) =>
            /\ tasks[t].status = "succeeded"
            /\ tasks[t].error = Null
            /\ RowsOf(t) = {}
            /\ (resp.op \in {"status", "job"} /\ resp.id = t /\ resp.code = 200) =>
                  /\ resp.status = "done"
                  /\ resp.result_url = Null
            /\ (resp.op = "result" /\ resp.id = t /\ resp.code \notin {401, 500}) =>
                  /\ resp.code = 404
                  /\ resp.error = "Not found"
                  /\ "result_base64" \notin DOMAIN resp
                  /\ "location" \notin DOMAIN resp

\* The result of a task whose stream yielded a text and a skipped chunk and
\* ended was fetched, and the answer was not found.
SucceededWithoutOutputWitness ==
    \E t \in TaskIds :
        /\ ExhaustedWithoutImage(t)
        /\ run[t].emitted # <<>>
        /\ tasks[t].status = "succeeded"
        /\ resp.op = "result"
        /\ resp.id = t
        /\ resp.user # Null
        /\ resp.code = 404

\* Task t ended failed with at least one output row recorded.
FailedWithOutputs(t) == tasks[t].status = "failed" /\ RowsOf(t) # {}

\* C37: the outputs of a failed task are not delivered by the job endpoints.
\* For a task that ended failed with one output row or more, a poll that is
\* let through reports the error word of its endpoint (error for GET
\* /api/v1/edit/:id, failed for GET /v1/jobs/:id) with a null result URL, and
\* a result fetch that is let through answers 400 result not available,
\* with no content and no redirect.
PartialOutputsWithheld ==
    \A t \in TaskIds :
        FailedWithOutputs(t) =>
            /\ (resp.op = "status" /\ resp.id = t /\ resp.code = 200) =>
                  /\ resp.status = "error"
                  /\ resp.result_url = Null
            /\ (resp.op = "job" /\ resp.id = t /\ resp.code = 200) =>
                  /\ resp.status = "failed"
                  /\ resp.result_url = Null
            /\ (resp.op = "result" /\ resp.id = t) =>
                  /\ resp.code \in {400, 401, 404, 500}
                  /\ resp.user # Null => /\ resp.code = 400
                                         /\ resp.error = "Result not available"
                  /\ "result_base64" \notin DOMAIN resp
                  /\ "location" \notin DOMAIN resp

\* The result of a task that failed after its stream had recorded an output
\* was asked for by its user, and the answer was 400.
PartialOutputsWithheldWitness ==
    \E t \in TaskIds :
        /\ FailedWithOutputs(t)
        /\ resp.op = "result"
        /\ resp.id = t
        /\ resp.user # Null
        /\ resp.code = 400

\* The enrichment patch has been applied to task t.
Enriched(t) == {"originalPath", "maskPath"} \subseteq DOMAIN tasks[t].params

\* C38: in POST /api/v1/edit the params enrichment is applied before the
\* background generation starts. In every state of every interleaving, a
\* task of that endpoint whose generation has started (its job is at the
\* backend call or consuming the stream, it has emitted a chunk, it has an
\* output, or it is terminal) has its enrichment applied; a task whose
\* enrichment is not applied is running and has no output; and the enriched
\* params are those of the creation plus the two paths, whatever the task has
\* become since.
EnrichedBeforeGeneration ==
    \A t \in TaskIds :
        run[t].flow = "edit" =>
            /\ (\/ run[t].pc \in {"invoke", "stream"}
                \/ run[t].emitted # <<>>
                \/ RowsOf(t) # {}
                \/ tasks[t].status \in Terminal) => Enriched(t)
            /\ ~Enriched(t) =>
                  /\ tasks[t].status = "running"
                  /\ tasks[t].completed_at = Null
                  /\ run[t].pc = "uploads" \/ run[t].raised = "record-upload"
            /\ Enriched(t) =>
                  /\ run[t].pc # "uploads"
                  /\ tasks[t].params.originalPath = <<"uploads", tasks[t].params.userId, t>>
                  /\ CreationKeys \subseteq DOMAIN tasks[t].params

\* One task of POST /api/v1/edit has ended failed with its enrichment in
\* place while the handler of another one is still at its uploads.
EnrichedBeforeGenerationWitness ==
    \E t, u \in TaskIds :
        /\ run[t].flow = "edit"
        /\ Enriched(t)
        /\ tasks[t].status = "failed"
        /\ run[u].flow = "edit"
        /\ run[u].pc = "uploads"
        /\ ~Enriched(u)

\* The task the response is about records a user id that is not the caller's.
OwnedByAnother ==
    /\ resp.id \in TaskIds
    /\ "userId" \in DOMAIN tasks[resp.id].params
    /\ tasks[resp.id].params.userId \notin {"", resp.user[1]}

\* C39: the polls and the result fetch answer not found for a task that
\* records the user id of someone else. For an authenticated caller and a task
\* that exists: if the task records a non-empty user id other than the
\* caller's, the answer is 404 not found whatever the status and the outputs
\* of the task, with no status, URL, content or redirect in it; if it records
\* the caller's id, or none, the check is passed: a poll is answered 200 and a
\* result fetch is answered by the status of the task (400 unless succeeded).
OwnershipBeforeStatus ==
    (resp.op \in {"status", "job", "result"} /\ resp.user # Null /\ resp.id \in TaskIds) =>
        /\ OwnedByAnother =>
              /\ resp.code = 404
              /\ resp.error = "Not found"
              /\ DOMAIN resp = {"op", "id", "user", "code", "error"}
        /\ ~OwnedByAnother =>
              /\ resp.op \in {"status", "job"} => resp.code = 200
              /\ resp.op = "result" =>
                    /\ tasks[resp.id].status # "succeeded" => resp.code = 400
                    /\ tasks[resp.id].status = "succeeded" =>
                          resp.code \in {200, 302, 404, 500}
                    /\ resp.code = 404 => RowsOf(resp.id) = {}

\* The result of a succeeded task that has an output and records another
\* user was asked for by the dev user, and the answer was not found.
OwnershipBeforeStatusWitness ==
    /\ resp.op = "result"
    /\ resp.user = Some("dev-user")
    /\ resp.id \in TaskIds
    /\ tasks[resp.id].status = "succeeded"
    /\ RowsOf(resp.id) # {}
    /\ tasks[resp.id].params = [userId |-> "other-user", provider |-> "gemini"]
    /\ resp.code = 404
====
